---- MODULE Spec2Model ----
(***************************************************************************)
(* State-machine model of the XAU/USD analyst: the SMC structure detectors *)
(* (src/src/smc_detector.py), the news gate (src/src/news_loader.py), the  *)
(* probability scorer (src/src/ml_classifier.py), the risk manager         *)
(* (src/src/risk_manager.py) and the decision pipeline                     *)
(* (src/src/analysis_engine.py).                                           *)
(*                                                                         *)
(* Number representation.  Prices are integers (price units).  Quantities  *)
(* the code computes with the factor 0.1 (stop, target, spread) are kept   *)
(* in tenths of a price unit.  The zone position is the exact fraction     *)
(* num/den and is compared by cross-multiplication.  R:R is fixed-point,   *)
(* RRScale units per 1.0, and carries the IEEE-754 rounding residue of the *)
(* double computation (see RoundingResidue).  Times are seconds; the       *)
(* minutes the news loader returns are kept multiplied by SecondsPerMinute.*)
(* Python dicts are functions whose domain is the set of present keys.     *)
(***************************************************************************)
EXTENDS Integers, Sequences, FiniteSets, TLC

VARIABLES
    config,                  \* RiskManager.config (prop_firm_config.json)
    daily_trades,            \* RiskManager.daily_trades
    consecutive_losses,      \* RiskManager.consecutive_losses
    current_daily_drawdown,  \* RiskManager.current_daily_drawdown
    analyst,                 \* the MarketAnalyst in use (NoAnalyst before construction)
    df,                      \* the bar series of the last analyze_market call
    prediction,              \* what a fitted model did in that call (PredRaises if unused)
    steps,                   \* stages the last analyze_market call went through, in order
    result,                  \* what the last analyze_market call returned (or raised)
    last_call,               \* the last direct method call: its name, arguments and return value
    live                     \* the live-mode run of main(): its position, session, work list and outputs

vars == <<config, daily_trades, consecutive_losses, current_daily_drawdown,
          analyst, df, prediction, steps, result, last_call, live>>

----------------------------------------------------------------------------
(* Program constants *)

swing_lookback == 5
TopOrderBlocks == 3
MaxFvgs == 5
ZoneWindow == 50
SmaWindow == 50
SweepLookback == 10
NewsWindowMinutes == 15
NoEventMinutes == 9999
SecondsPerMinute == 60
SpreadTenths == 1
RRScale == 10000
IndicatorPeriod == 14
MinTrainingSamples == 20
NaN == [num |-> 0, den |-> 0]

----------------------------------------------------------------------------
(* Generic helpers *)

Max2(a, b) == IF a >= b THEN a ELSE b
Min2(a, b) == IF a <= b THEN a ELSE b
Abs(a) == IF a < 0 THEN -a ELSE a

\* pandas positional indexing is 0-based: df.iloc[i]
At(s, i) == s[i + 1]

\* range(lo, hi)
Range(lo, hi) == lo .. (hi - 1)

\* Column maximum, minimum and sum over the rows with 0-based positions lo .. hi-1
\* (df[col].iloc[lo:hi].max(), .min(), .sum()); the slice is not empty
ColMax(s, lo, hi, col) ==
    LET vals == {s[i][col] : i \in (lo + 1)..hi}
    IN  CHOOSE x \in vals : \A y \in vals : y <= x

ColMin(s, lo, hi, col) ==
    LET vals == {s[i][col] : i \in (lo + 1)..hi}
    IN  CHOOSE x \in vals : \A y \in vals : x <= y

RECURSIVE ColSum(_, _, _, _)
ColSum(s, lo, hi, col) ==
    IF hi <= lo THEN 0 ELSE s[hi][col] + ColSum(s, lo, hi - 1, col)

\* Comparisons of possibly undefined (NaN) numbers: every comparison with NaN is False
Lt(a, b) == a.den > 0 /\ b.den > 0 /\ a.num * b.den < b.num * a.den
Gt(a, b) == a.den > 0 /\ b.den > 0 /\ a.num * b.den > b.num * a.den

RECURSIVE Rep(_, _)
Rep(b, n) == IF n = 0 THEN << >> ELSE <<b>> \o Rep(b, n - 1)

\* F(lo) \o F(lo+1) \o ... \o F(hi): a for loop appending to a list
RECURSIVE Collect(_, _, _)
Collect(F(_), lo, hi) ==
    IF lo > hi THEN << >>
    ELSE F(lo) \o Collect(F, lo + 1, hi)

----------------------------------------------------------------------------
\* An exception leaving a call
Raise(e) == [exception |-> e]
Raised(v) == "exception" \in DOMAIN v

(* Bars and bar series.  A candle is a row of the download; a bar is a row of the
   DataFrame fetch_data builds from it, with the RSI, ATR and VWAP columns.  A
   float column holds an exact fraction num / den; den = 0 is NaN. *)

\* A downloaded candle, volume 1
Candle(o, h, l, c) == [Open |-> o, High |-> h, Low |-> l, Close |-> c, Volume |-> 1]

\* The same candles with no volume reported
Unquoted(d) == [i \in 1..Len(d) |-> [d[i] EXCEPT !.Volume = 0]]

\* F(lo) + ... + F(hi): a rolling or cumulative sum
RECURSIVE SumOver(_, _, _)
SumOver(F(_), lo, hi) == IF lo > hi THEN 0 ELSE F(hi) + SumOver(F, lo, hi - 1)

\* calculate_rsi(df['Close']) at row i (1-based).  delta is NaN in row 1 and
\* where(delta > 0, 0) makes it 0 there, so the rolling means are defined from row
\* 14 on; 100 - 100 / (1 + gain / loss) is 100 * gain / (gain + loss): 100 when only
\* gains, NaN (0 / 0) when the closes of the window are equal.
calculate_rsi(d, i) ==
    LET Gain(j) == IF j = 1 THEN 0 ELSE Max2(d[j].Close - d[j - 1].Close, 0)
        Loss(j) == IF j = 1 THEN 0 ELSE Max2(d[j - 1].Close - d[j].Close, 0)
        gain == SumOver(Gain, i - IndicatorPeriod + 1, i)
        loss == SumOver(Loss, i - IndicatorPeriod + 1, i)
    IN  IF i < IndicatorPeriod THEN NaN
        ELSE [num |-> 100 * gain, den |-> gain + loss]

\* calculate_atr(df) at row i: the rolling mean of the true range, which in row 1
\* (no previous close) is the bar's range
calculate_atr(d, i) ==
    LET TrueRange(j) ==
            IF j = 1 THEN d[j].High - d[j].Low
            ELSE Max2(d[j].High - d[j].Low,
                      Max2(Abs(d[j].High - d[j - 1].Close),
                           Abs(d[j].Low - d[j - 1].Close)))
    IN  IF i < IndicatorPeriod THEN NaN
        ELSE [num |-> SumOver(TrueRange, i - IndicatorPeriod + 1, i),
              den |-> IndicatorPeriod]

\* (Volume * (High + Low + Close) / 3).cumsum() / Volume.cumsum() at row i: NaN
\* (0 / 0) while no volume has been reported
Vwap(d, i) ==
    LET Traded(j) == d[j].Volume * (d[j].High + d[j].Low + d[j].Close)
        Volume(j) == d[j].Volume
    IN  [num |-> SumOver(Traded, 1, i), den |-> 3 * SumOver(Volume, 1, i)]

\* The indicator columns fetch_data adds to the downloaded candles
Indicators(d) ==
    [i \in 1..Len(d) |->
        [Open |-> d[i].Open, High |-> d[i].High, Low |-> d[i].Low,
         Close |-> d[i].Close, Volume |-> d[i].Volume,
         RSI |-> calculate_rsi(d, i), ATR |-> calculate_atr(d, i),
         VWAP |-> Vwap(d, i)]]

\* fetch_data(symbol, period, interval), the download being d: ValueError when it
\* is empty after the retries
fetch_data(d) == IF d = << >> THEN Raise("ValueError") ELSE Indicators(d)

----------------------------------------------------------------------------
(* SMC_Detector *)

\* sorted(order_blocks, key=strength, reverse=True): stable, equal strengths keep scan order
InsertByStrength(acc, x) ==
    LET before == {p \in 1..Len(acc) : acc[p].strength >= x.strength}
        k == IF before = {} THEN 0
             ELSE CHOOSE p \in before : \A q \in before : q <= p
    IN  \* acc is sorted descending, so the elements >= x are a prefix of length k
        SubSeq(acc, 1, k) \o <<x>> \o SubSeq(acc, k + 1, Len(acc))

RECURSIVE SortedByStrength(_, _)
SortedByStrength(s, acc) ==
    IF s = << >> THEN acc
    ELSE SortedByStrength(Tail(s), InsertByStrength(acc, Head(s)))

OrderBlockAt(d, direction, i) ==
    LET current == At(d, i)
        next_candle == At(d, i + 1)
        is_bullish == current.Close > current.Open
        strong_bearish == next_candle.Close < current.Low
                          /\ next_candle.Close < next_candle.Open
        is_bearish == current.Close < current.Open
        strong_bullish == next_candle.Close > current.High
                          /\ next_candle.Close > next_candle.Open
    IN  IF direction = "bearish" /\ is_bullish /\ strong_bearish
        THEN << [type |-> "Bearish OB", index |-> i, top |-> current.High,
                 bottom |-> current.Low,
                 strength |-> Abs(next_candle.Close - current.Low)] >>
        ELSE IF direction = "bullish" /\ is_bearish /\ strong_bullish
        THEN << [type |-> "Bullish OB", index |-> i, top |-> current.High,
                 bottom |-> current.Low,
                 strength |-> Abs(next_candle.Close - current.High)] >>
        ELSE << >>

\* Faulty variant: the first three detections in scan order, unsorted
detect_order_blocks_scan_order(d, direction) ==
    LET Found(i) == OrderBlockAt(d, direction, i)
        order_blocks == Collect(Found, swing_lookback, Len(d) - 2)
    IN  SubSeq(order_blocks, 1, Min2(TopOrderBlocks, Len(order_blocks)))

detect_order_blocks(d, direction) ==
    LET Found(i) == OrderBlockAt(d, direction, i)
        order_blocks == Collect(Found, swing_lookback, Len(d) - 2)
        sorted == SortedByStrength(order_blocks, << >>)
    IN  SubSeq(sorted, 1, Min2(TopOrderBlocks, Len(sorted)))

FvgAt(d, i) ==
    LET candle_before == At(d, i - 2)
        candle_current == At(d, i)
    IN  IF candle_before.Low > candle_current.High
        THEN << [type |-> "Bearish FVG", index |-> i, top |-> candle_before.Low,
                 bottom |-> candle_current.High,
                 size |-> candle_before.Low - candle_current.High] >>
        ELSE IF candle_before.High < candle_current.Low
        THEN << [type |-> "Bullish FVG", index |-> i, top |-> candle_current.Low,
                 bottom |-> candle_before.High,
                 size |-> candle_current.Low - candle_before.High] >>
        ELSE << >>

\* Faulty variant: the first five gaps instead of the last five
detect_fvg_oldest_five(d) ==
    LET Found(i) == FvgAt(d, i)
        fvgs == Collect(Found, 2, Len(d) - 1)
    IN  SubSeq(fvgs, 1, Min2(MaxFvgs, Len(fvgs)))

detect_fvg(d) ==
    LET Found(i) == FvgAt(d, i)
        fvgs == Collect(Found, 2, Len(d) - 1)
    IN  SubSeq(fvgs, Max2(1, Len(fvgs) - MaxFvgs + 1), Len(fvgs))

\* position > num/1000, the position being the exact fraction p.num / p.den
PositionAbove(p, thousandths) == 1000 * p.num > thousandths * p.den

\* Faulty variant: the lower bound of Equilibrium included
ZoneOf_inclusive(position) ==
    IF PositionAbove(position, 618) THEN "Premium"
    ELSE IF PositionAbove(position, 500) THEN "Premium (Weak)"
    ELSE IF 1000 * position.num >= 382 * position.den THEN "Equilibrium"
    ELSE "Discount"

ZoneOf(position) ==
    IF PositionAbove(position, 618) THEN "Premium"
    ELSE IF PositionAbove(position, 500) THEN "Premium (Weak)"
    ELSE IF PositionAbove(position, 382) THEN "Equilibrium"
    ELSE "Discount"

ZoneStrength(zone) ==
    CASE zone = "Premium" -> "STRONG SHORT ZONE"
      [] zone = "Premium (Weak)" -> "MODERATE SHORT ZONE"
      [] zone = "Equilibrium" -> "NEUTRAL ZONE"
      [] OTHER -> "LONG ZONE (Skip for short-only)"

\* levels are kept in thousandths of a price unit
FibLevels(high, low) ==
    LET range_size == high - low
    IN  ("1.0 (High)" :> 1000 * high)
        @@ ("0.786" :> 1000 * high - 214 * range_size)
        @@ ("0.618 (Golden)" :> 1000 * high - 382 * range_size)
        @@ ("0.5 (Equilibrium)" :> 1000 * high - 500 * range_size)
        @@ ("0.382" :> 1000 * high - 618 * range_size)
        @@ ("0.236" :> 1000 * high - 764 * range_size)
        @@ ("0.0 (Low)" :> 1000 * low)

\* Faulty variant: the position divided by the range whatever the range
calculate_premium_discount_unguarded(d) ==
    IF Len(d) = 0
    THEN Raise("IndexError")
    ELSE
    LET first == Max2(0, Len(d) - ZoneWindow)
        high == ColMax(d, first, Len(d), "High")
        low == ColMin(d, first, Len(d), "Low")
        current_price == At(d, Len(d) - 1).Close
        range_size == high - low
        position == [num |-> current_price - low, den |-> range_size]
        zone == ZoneOf(position)
    IN  [current_price |-> current_price, position |-> position, zone |-> zone,
         strength |-> ZoneStrength(zone), levels |-> FibLevels(high, low)]

calculate_premium_discount(d) ==
    IF Len(d) = 0
    THEN Raise("IndexError")   \* self.df['Close'].iloc[-1] on an empty frame
    ELSE
    LET first == Max2(0, Len(d) - ZoneWindow)   \* recent_data = self.df.tail(50)
        high == ColMax(d, first, Len(d), "High")
        low == ColMin(d, first, Len(d), "Low")
        current_price == At(d, Len(d) - 1).Close
        range_size == high - low
        position == IF range_size > 0
                    THEN [num |-> current_price - low, den |-> range_size]
                    ELSE [num |-> 1, den |-> 2]
        zone == ZoneOf(position)
    IN  [current_price |-> current_price, position |-> position, zone |-> zone,
         strength |-> ZoneStrength(zone), levels |-> FibLevels(high, low)]

SwingHighAt(d, i) ==
    LET current == At(d, i)
        window_max == ColMax(d, i - swing_lookback, i + swing_lookback + 1, "High")
    IN  IF current.High = window_max
        THEN << [index |-> i, price |-> current.High] >> ELSE << >>

SwingLowAt(d, i) ==
    LET current == At(d, i)
        window_min == ColMin(d, i - swing_lookback, i + swing_lookback + 1, "Low")
    IN  IF current.Low = window_min
        THEN << [index |-> i, price |-> current.Low] >> ELSE << >>

swing_highs(d) ==
    LET Found(i) == SwingHighAt(d, i)
    IN  Collect(Found, swing_lookback, Len(d) - swing_lookback - 1)

swing_lows(d) ==
    LET Found(i) == SwingLowAt(d, i)
    IN  Collect(Found, swing_lookback, Len(d) - swing_lookback - 1)

NoMss == [type |-> "None"]

\* Faulty variant: the bullish condition tested before the bearish one
detect_market_structure_shift_bullish_first(d) ==
    IF Len(d) = 0
    THEN Raise("IndexError")
    ELSE
    LET lows == swing_lows(d)
        highs == swing_highs(d)
        current_price == At(d, Len(d) - 1).Close
        nl == Len(lows)
        nh == Len(highs)
    IN  IF nh >= 2 /\ highs[nh].price < highs[nh - 1].price
           /\ current_price > highs[nh].price
        THEN [type |-> "Bullish MSS", broken_level |-> highs[nh].price,
              strength |-> "Strong",
              implication |-> "Trend reversal to upside (avoid shorts)"]
        ELSE IF nl >= 2 /\ lows[nl].price > lows[nl - 1].price
                /\ current_price < lows[nl].price
        THEN [type |-> "Bearish MSS", broken_level |-> lows[nl].price,
              strength |-> "Strong", implication |-> "Trend reversal to downside"]
        ELSE NoMss

\* Faulty variant: the level reported is the swing before the most recent one
detect_market_structure_shift_earlier_level(d) ==
    IF Len(d) = 0
    THEN Raise("IndexError")
    ELSE
    LET lows == swing_lows(d)
        highs == swing_highs(d)
        current_price == At(d, Len(d) - 1).Close
        nl == Len(lows)
        nh == Len(highs)
    IN  IF nl >= 2 /\ lows[nl].price > lows[nl - 1].price
           /\ current_price < lows[nl].price
        THEN [type |-> "Bearish MSS", broken_level |-> lows[nl - 1].price,
              strength |-> "Strong", implication |-> "Trend reversal to downside"]
        ELSE IF nh >= 2 /\ highs[nh].price < highs[nh - 1].price
                /\ current_price > highs[nh].price
        THEN [type |-> "Bullish MSS", broken_level |-> highs[nh - 1].price,
              strength |-> "Strong",
              implication |-> "Trend reversal to upside (avoid shorts)"]
        ELSE NoMss

\* Python's None is NoMss; `if mss` is mss # NoMss
detect_market_structure_shift(d) ==
    IF Len(d) = 0
    THEN Raise("IndexError")   \* self.df['Close'].iloc[-1] on an empty frame
    ELSE
    LET lows == swing_lows(d)
        highs == swing_highs(d)
        current_price == At(d, Len(d) - 1).Close
        nl == Len(lows)
        nh == Len(highs)
    IN  IF nl >= 2 /\ lows[nl].price > lows[nl - 1].price
           /\ current_price < lows[nl].price
        THEN [type |-> "Bearish MSS", broken_level |-> lows[nl].price,
              strength |-> "Strong", implication |-> "Trend reversal to downside"]
        ELSE IF nh >= 2 /\ highs[nh].price < highs[nh - 1].price
                /\ current_price > highs[nh].price
        THEN [type |-> "Bullish MSS", broken_level |-> highs[nh].price,
              strength |-> "Strong",
              implication |-> "Trend reversal to upside (avoid shorts)"]
        ELSE NoMss

\* The dict is built in source order: order blocks, FVGs, zone, MSS.  The first
\* call that raises ends analyze_all.
analyze_all(d) ==
    LET pd_zone == calculate_premium_discount(d)
    IN  IF Raised(pd_zone) THEN pd_zone
        ELSE [order_blocks |-> [bearish |-> detect_order_blocks(d, "bearish"),
                                bullish |-> detect_order_blocks(d, "bullish")],
              fair_value_gaps |-> detect_fvg(d),
              premium_discount |-> pd_zone,
              market_structure_shift |-> detect_market_structure_shift(d)]

----------------------------------------------------------------------------
(* news_loader *)

\* f"{x:.0f}" of x = n / SecondsPerMinute: round half to even
RoundHalfEven(n, unit) ==
    LET q == n \div unit
        r == n % unit
    IN  IF 2 * r < unit THEN q
        ELSE IF 2 * r > unit THEN q + 1
        ELSE IF q % 2 = 0 THEN q ELSE q + 1

\* The calendar is a sequence of events [title, diff_seconds]: diff_seconds is
\* event time minus now.  Returns the minutes (times SecondsPerMinute) and the title.
get_seconds_to_impact(news) ==
    IF news = << >>
    THEN [mins60 |-> NoEventMinutes * SecondsPerMinute, title |-> "None"]
    ELSE LET abs_diff(i) == Abs(news[i].diff_seconds)
             \* idxmin: the first row holding the minimum
             closest == CHOOSE i \in 1..Len(news) :
                           /\ \A j \in 1..Len(news) : abs_diff(i) <= abs_diff(j)
                           /\ \A j \in 1..(i - 1) : abs_diff(j) > abs_diff(i)
         IN  [mins60 |-> abs_diff(closest), title |-> news[closest].title]

----------------------------------------------------------------------------
(* SetupSuccessClassifier *)

\* Faulty variant: the trend points given for a Bullish trend too
_fallback_probability_any_trend(market_data, smc_data) ==
    LET pd_zone == smc_data.premium_discount
        mss == smc_data.market_structure_shift
        prob == (IF market_data.htf_trend \in {"Bearish", "Bullish"} THEN 30 ELSE 0)
              + (IF market_data.liquidity_event_type # "None" THEN 25 ELSE 0)
              + (IF market_data.rsi_divergence THEN 10 ELSE 0)
              + (IF market_data.has_large_wick THEN 10 ELSE 0)
              + (IF PositionAbove(pd_zone.position, 700) THEN 15 ELSE 0)
              + (IF Len(smc_data.order_blocks.bearish) > 0 THEN 10 ELSE 0)
              + (IF mss # NoMss /\ mss.type = "Bearish MSS" THEN 10 ELSE 0)
    IN  Min2(prob, 100)

_fallback_probability(market_data, smc_data) ==
    LET pd_zone == smc_data.premium_discount
        mss == smc_data.market_structure_shift
        prob == (IF market_data.htf_trend = "Bearish" THEN 30 ELSE 0)
              + (IF market_data.liquidity_event_type # "None" THEN 25 ELSE 0)
              + (IF market_data.rsi_divergence THEN 10 ELSE 0)
              + (IF market_data.has_large_wick THEN 10 ELSE 0)
              + (IF PositionAbove(pd_zone.position, 700) THEN 15 ELSE 0)
              + (IF Len(smc_data.order_blocks.bearish) > 0 THEN 10 ELSE 0)
              + (IF mss # NoMss /\ mss.type = "Bearish MSS" THEN 10 ELSE 0)
    IN  Min2(prob, 100)

\* model: "none" (self.model is None or xgboost missing), "unfitted", "fitted".
\* pred: what scaler.transform / predict_proba do for a fitted model: they raise,
\* or give the class-1 probability (in percent).
PredRaises == [kind |-> "raise"]
PredProb(p) == [kind |-> "prob", value |-> p]

\* Faulty variant: a raising prediction scored 0 instead of the fallback score
predict_success_probability_zero_on_error(model, pred, market_data, smc_data) ==
    IF model = "none" THEN _fallback_probability(market_data, smc_data)
    ELSE IF model = "unfitted" THEN _fallback_probability(market_data, smc_data)
    ELSE IF pred.kind = "raise" THEN 0
    ELSE pred.value

predict_success_probability(model, pred, market_data, smc_data) ==
    IF model = "none" THEN _fallback_probability(market_data, smc_data)
    ELSE IF model = "unfitted" THEN _fallback_probability(market_data, smc_data)
    ELSE IF pred.kind = "raise" THEN _fallback_probability(market_data, smc_data)
    ELSE pred.value

----------------------------------------------------------------------------
(* RiskManager *)

\* f-string rendering of a value kept in tenths
Tenths(v) == ToString(v \div 10) \o "." \o ToString(v % 10)

\* f-string rendering of an R:R: exact multiples of 0.1 print like Tenths, a double
\* that misses one prints its residue in units in the last place
FmtRR(rr) ==
    LET t == (rr + RRScale \div 20) \div (RRScale \div 10)
        k == rr - t * (RRScale \div 10)
    IN  IF k = 0 THEN Tenths(t)
        ELSE IF k > 0 THEN Tenths(t) \o "+" \o ToString(k) \o "ulp"
        ELSE Tenths(t) \o "-" \o ToString(-k) \o "ulp"

\* Faulty variant: the probability check left out
validate_setup_skips_probability(cfg, rr_ratio, spread, prob_score) ==
    IF rr_ratio < cfg.min_risk_reward_ratio
    THEN <<FALSE, "R:R " \o FmtRR(rr_ratio) \o " < " \o FmtRR(cfg.min_risk_reward_ratio)>>
    ELSE IF spread > cfg.max_spread_pips
    THEN <<FALSE, "Spread " \o Tenths(spread) \o " > " \o Tenths(cfg.max_spread_pips)>>
    ELSE <<TRUE, "Valid">>

\* Faulty variant: the spread checked before the R:R
validate_setup_spread_first(cfg, rr_ratio, spread, prob_score) ==
    IF spread > cfg.max_spread_pips
    THEN <<FALSE, "Spread " \o Tenths(spread) \o " > " \o Tenths(cfg.max_spread_pips)>>
    ELSE IF rr_ratio < cfg.min_risk_reward_ratio
    THEN <<FALSE, "R:R " \o FmtRR(rr_ratio) \o " < " \o FmtRR(cfg.min_risk_reward_ratio)>>
    ELSE IF prob_score < cfg.min_probability_threshold
    THEN <<FALSE, "Probability " \o ToString(prob_score) \o "% < "
                  \o ToString(cfg.min_probability_threshold) \o "%">>
    ELSE <<TRUE, "Valid">>

validate_setup(cfg, rr_ratio, spread, prob_score) ==
    IF rr_ratio < cfg.min_risk_reward_ratio
    THEN <<FALSE, "R:R " \o FmtRR(rr_ratio) \o " < " \o FmtRR(cfg.min_risk_reward_ratio)>>
    ELSE IF spread > cfg.max_spread_pips
    THEN <<FALSE, "Spread " \o Tenths(spread) \o " > " \o Tenths(cfg.max_spread_pips)>>
    ELSE IF prob_score < cfg.min_probability_threshold
    THEN <<FALSE, "Probability " \o ToString(prob_score) \o "% < "
                  \o ToString(cfg.min_probability_threshold) \o "%">>
    ELSE <<TRUE, "Valid">>

\* Faulty variant: the consecutive-loss stop checked before the daily trade count
can_trade_checks_losses_first(cfg, trades, losses, drawdown) ==
    IF losses >= cfg.consecutive_loss_stop_count
    THEN <<FALSE, "Stopped due to consecutive losses">>
    ELSE IF trades >= cfg.max_trades_per_day
    THEN <<FALSE, "Max daily trades reached">>
    ELSE IF drawdown >= cfg.max_daily_drawdown_percent
    THEN <<FALSE, "Max daily drawdown reached">>
    ELSE <<TRUE, "OK">>

\* The checks of can_trade, on the counters as they are after its increment
can_trade_checks(cfg, trades, losses, drawdown) ==
    IF trades >= cfg.max_trades_per_day
    THEN <<FALSE, "Max daily trades reached">>
    ELSE IF losses >= cfg.consecutive_loss_stop_count
    THEN <<FALSE, "Stopped due to consecutive losses">>
    ELSE IF drawdown >= cfg.max_daily_drawdown_percent
    THEN <<FALSE, "Max daily drawdown reached">>
    ELSE <<TRUE, "OK">>

\* Faulty variant: the loss counted whatever the flag
can_trade_losses_always(losses, last_outcome_was_loss) == losses + 1

\* consecutive_losses after can_trade(last_outcome_was_loss)
can_trade_losses(losses, last_outcome_was_loss) ==
    IF last_outcome_was_loss THEN losses + 1 ELSE losses

\* self.rules[...] of can_trade raises KeyError: a subscript is evaluated only when
\* the checks before it did not return
can_trade_key_error(cfg, trades, losses, drawdown) ==
    \/ "max_trades_per_day" \notin DOMAIN cfg
    \/ /\ trades < cfg.max_trades_per_day
       /\ \/ "consecutive_loss_stop_count" \notin DOMAIN cfg
          \/ /\ losses < cfg.consecutive_loss_stop_count
             /\ "max_daily_drawdown_percent" \notin DOMAIN cfg

\* self.rules[...] / self.filters[...] of validate_setup raises KeyError
validate_setup_key_error(cfg, rr_ratio, spread, prob_score) ==
    \/ "min_risk_reward_ratio" \notin DOMAIN cfg
    \/ /\ rr_ratio >= cfg.min_risk_reward_ratio
       /\ \/ "max_spread_pips" \notin DOMAIN cfg
          \/ /\ spread <= cfg.max_spread_pips
             /\ "min_probability_threshold" \notin DOMAIN cfg

\* Strings of digits and ':' are sequences of character ranks ('0' < ... < '9' < ':')
Colon == 10

\* current_time_utc.strftime("%H:%M"), the time given in minutes since 00:00 UTC
strftime_HM(minutes) ==
    LET hh == minutes \div 60
        mm == minutes % 60
    IN  <<hh \div 10, hh % 10, Colon, mm \div 10, mm % 10>>

\* Python's a <= b on strings: lexicographic, a proper prefix being smaller
RECURSIVE StrLe(_, _)
StrLe(a, b) ==
    IF a = << >> THEN TRUE
    ELSE IF b = << >> THEN FALSE
    ELSE IF Head(a) < Head(b) THEN TRUE
    ELSE IF Head(a) > Head(b) THEN FALSE
    ELSE StrLe(Tail(a), Tail(b))

TradingHoursKeys ==
    {"london_start_utc", "london_end_utc", "new_york_start_utc", "new_york_end_utc"}

\* self.config['trading_hours'][...] of check_session raises KeyError: the four
\* bounds are read before any comparison
check_session_key_error(cfg) == ~(TradingHoursKeys \subseteq DOMAIN cfg)

\* Faulty variant: the New York window tested before the London window
check_session_new_york_first(cfg, current_time_utc) ==
    LET current_str == strftime_HM(current_time_utc)
    IN  IF StrLe(cfg.new_york_start_utc, current_str)
           /\ StrLe(current_str, cfg.new_york_end_utc)
        THEN "NEW_YORK"
        ELSE IF StrLe(cfg.london_start_utc, current_str)
                /\ StrLe(current_str, cfg.london_end_utc)
        THEN "LONDON"
        ELSE "None"

check_session(cfg, current_time_utc) ==
    LET current_str == strftime_HM(current_time_utc)
    IN  IF StrLe(cfg.london_start_utc, current_str)
           /\ StrLe(current_str, cfg.london_end_utc)
        THEN "LONDON"
        ELSE IF StrLe(cfg.new_york_start_utc, current_str)
                /\ StrLe(current_str, cfg.new_york_end_utc)
        THEN "NEW_YORK"
        ELSE "None"

\* RiskManager.__init__ on the parsed configuration file (NoFile: it cannot be
\* read).  The manager's configuration is the union of the three sections its
\* methods read: self.rules, self.filters and self.config['trading_hours'].
NoFile == [file |-> "missing"]

RiskManagerInit(raw) ==
    IF raw = NoFile THEN Raise("FileNotFoundError")
    ELSE IF "risk_rules_locked" \notin DOMAIN raw \/ "filters" \notin DOMAIN raw
    THEN Raise("KeyError")
    ELSE raw.risk_rules_locked @@ raw.filters
         @@ (IF "trading_hours" \in DOMAIN raw THEN raw.trading_hours
             ELSE [k \in {} |-> 0])

----------------------------------------------------------------------------
(* MarketAnalyst *)

EmptyDict == [k \in {} |-> 0]

\* Faulty variant: a mean over the bars there are when fewer than 50 exist
HtfTrend_partial_window(d) ==
    LET n == Len(d)
        close == At(d, n - 1).Close
        first == Max2(0, n - SmaWindow)
        total == ColSum(d, first, n, "Close")
    IN  IF (n - first) * close < total THEN "Bearish"
        ELSE IF (n - first) * close > total THEN "Bullish"
        ELSE "Ranging"

\* sma_50 = df['Close'].rolling(window=50).mean().iloc[-1], compared with the close
\* as 50 * close against the window sum; undefined (NaN) below 50 bars
HtfTrend(d) ==
    LET n == Len(d)
        close == At(d, n - 1).Close
    IN  IF n < SmaWindow THEN "Ranging"
        ELSE LET total == ColSum(d, n - SmaWindow, n, "Close")
             IN  IF SmaWindow * close < total THEN "Bearish"
                 ELSE IF SmaWindow * close > total THEN "Bullish"
                 ELSE "Ranging"

\* (target - entry) / risk as the double arithmetic of analysis_engine.py:111-114
\* and :156-159 computes it on integer prices 0..10: the number of representable
\* doubles by which the quotient misses 2.0.  The short branch is exact there.
RoundingResidue(direction, h, l, c) ==
    IF direction = "SHORT" THEN 0
    ELSE IF <<h, l, c>> \in {<<4,1,2>>, <<7,1,3>>, <<5,2,3>>, <<8,2,4>>, <<9,3,5>>,
                             <<10,3,7>>, <<10,4,5>>, <<10,4,6>>} THEN -2
    ELSE IF <<h, l, c>> \in {<<6,0,3>>, <<7,0,5>>, <<7,0,6>>, <<7,0,7>>, <<8,0,1>>,
                             <<7,1,4>>, <<8,1,6>>, <<8,1,7>>, <<8,1,8>>, <<9,1,2>>,
                             <<10,1,1>>, <<8,2,5>>, <<9,2,7>>, <<9,2,8>>, <<9,2,9>>,
                             <<10,2,3>>, <<9,3,6>>, <<10,3,8>>, <<10,3,9>>,
                             <<10,3,10>>, <<10,4,7>>} THEN -1
    ELSE IF <<h, l, c>> \in {<<4,0,3>>, <<8,0,5>>, <<8,0,6>>, <<8,0,7>>, <<9,0,3>>,
                             <<3,1,2>>, <<5,1,4>>, <<8,1,1>>, <<9,1,6>>, <<9,1,7>>,
                             <<9,1,8>>, <<10,1,3>>, <<10,1,4>>, <<4,2,3>>, <<6,2,4>>,
                             <<6,2,5>>, <<10,2,7>>, <<10,2,8>>, <<10,2,9>>, <<7,3,5>>,
                             <<7,3,6>>, <<8,4,6>>, <<8,4,7>>, <<10,7,10>>} THEN 1
    ELSE 0

\* The setup of lines 109-114 (SHORT) and 154-159 (LONG); prices in tenths
BuildSetup(direction, candle) ==
    LET bar_range == candle.High - candle.Low
        entry_price == 10 * candle.Close
        stop_loss == IF direction = "SHORT"
                     THEN 10 * candle.High + bar_range
                     ELSE 10 * candle.Low - bar_range
        risk == IF direction = "SHORT" THEN stop_loss - entry_price
                ELSE entry_price - stop_loss
        tp1 == IF direction = "SHORT" THEN entry_price - 2 * risk
               ELSE entry_price + 2 * risk
        rr_ratio == IF risk > 0
                    THEN 2 * RRScale
                         + RoundingResidue(direction, candle.High, candle.Low, candle.Close)
                    ELSE 0
    IN  [entry_price |-> entry_price, stop_loss |-> stop_loss, risk |-> risk,
         tp1 |-> tp1, rr_ratio |-> rr_ratio]

SetupData(direction, trend, liq_event, exhaust, rsi, candle, smc_data) ==
    LET mss == smc_data.market_structure_shift
        zone == smc_data.premium_discount.zone
    IN  [session |-> "Unknown",
         htf_trend |-> trend,
         htf_structure |-> IF direction = "SHORT" THEN "LH" ELSE "HL",
         key_resistance_level |-> 0,
         liquidity_event_type |-> liq_event,
         has_large_wick |-> exhaust,
         consecutive_bullish_candles |-> 0,
         atr_value |-> candle.ATR,
         rsi_divergence |-> rsi,
         vwap_distance |-> IF candle.VWAP.den = 0 THEN NaN
                           ELSE [num |-> Abs(candle.Close * candle.VWAP.den
                                             - candle.VWAP.num),
                                 den |-> candle.VWAP.den],
         volume_spike |-> FALSE,
         spread_value |-> 0,
         news_event_proximity_minutes |-> 999,
         premium_position |-> smc_data.premium_discount.position,
         in_premium_zone |-> IF zone \in {"Premium", "Premium (Weak)"} THEN 1 ELSE 0,
         bearish_ob_count |-> Len(smc_data.order_blocks.bearish),
         bullish_ob_count |-> Len(smc_data.order_blocks.bullish),
         fvg_count |-> Len(smc_data.fair_value_gaps),
         has_bearish_mss |-> IF mss # NoMss /\ mss.type = "Bearish MSS" THEN 1 ELSE 0,
         has_bullish_mss |-> IF mss # NoMss /\ mss.type = "Bullish MSS" THEN 1 ELSE 0]

_finalize_setup(cfg, model, pred, setup, direction, trend, liq_event, exhaust, rsi, candle, smc_data) ==
    LET setup_data == SetupData(direction, trend, liq_event, exhaust, rsi, candle, smc_data)
        ml_prob == predict_success_probability(model, pred, setup_data, smc_data)
        checked == validate_setup(cfg, setup.rr_ratio, SpreadTenths, ml_prob)
        trade_plan == [direction |-> direction,
                       entry_zone_start |-> setup.entry_price,
                       entry_zone_end |-> IF direction = "SHORT"
                                          THEN setup.entry_price + 10
                                          ELSE setup.entry_price - 10,
                       stop_loss |-> setup.stop_loss,
                       tp1 |-> setup.tp1,
                       tp2 |-> 0,
                       estimated_rr |-> setup.rr_ratio,
                       probability_score |-> ml_prob]
    IN  IF ~checked[1]
        THEN [verdict |-> "NO TRADE", reason |-> checked[2], data |-> setup_data]
        ELSE [verdict |-> "VALID SETUP", reason |-> "All checks passed",
              data |-> setup_data, plan |-> trade_plan, smc |-> smc_data]

\* Faulty variant: the strong Premium zone missing from the accepted set
valid_zones_short_weak_only == {"Premium (Weak)", "Equilibrium"}

valid_zones_short == {"Premium", "Premium (Weak)", "Equilibrium"}
valid_zones_long == {"Discount", "Discount (Weak)", "Equilibrium"}

\* df[col].iloc[-lookback:-1]: the bars before the current one, at most lookback - 1 of them
SweepFirst(d) == Max2(0, Len(d) - SweepLookback)

ShortSweep(d, current_candle) ==
    current_candle.High > ColMax(d, SweepFirst(d), Len(d) - 1, "High")

LongSweep(d, current_candle) ==
    current_candle.Low < ColMin(d, SweepFirst(d), Len(d) - 1, "Low")

\* Faulty variant: the wick must be longer than the body
ShortExhaustion_strict(c) == c.High - Max2(c.Close, c.Open) > Abs(c.Close - c.Open)

ShortExhaustion(c) == c.High - Max2(c.Close, c.Open) >= Abs(c.Close - c.Open)
LongExhaustion(c) == Min2(c.Close, c.Open) - c.Low >= Abs(c.Close - c.Open)

ShortDivergence(c, p) == c.High > p.High /\ Lt(c.RSI, p.RSI)
LongDivergence(c, p) == c.Low < p.Low /\ Gt(c.RSI, p.RSI)

_analyze_short_setup(cfg, model, pred, d, smc_data, trend, current_candle, prev_candle) ==
    LET pd_zone == smc_data.premium_discount
        mss == smc_data.market_structure_shift
        liquidity_event == IF ShortSweep(d, current_candle)
                           THEN "Local High Sweep" ELSE "None"
        is_exhaustion == ShortExhaustion(current_candle)
        rsi_div == ShortDivergence(current_candle, prev_candle)
    IN  IF pd_zone.zone \notin valid_zones_short
        THEN [verdict |-> "NO TRADE",
              reason |-> "Not in Premium Zone (Current: " \o pd_zone.zone \o ")",
              data |-> EmptyDict, smc |-> smc_data]
        ELSE IF mss # NoMss /\ mss.type = "Bullish MSS"
        THEN [verdict |-> "NO TRADE",
              reason |-> "Bullish Market Structure Shift detected",
              data |-> EmptyDict, smc |-> smc_data]
        ELSE IF liquidity_event = "None"
        THEN [verdict |-> "NO TRADE", reason |-> "No Liquidity Sweep (Highs)",
              data |-> EmptyDict]
        ELSE IF ~rsi_div /\ ~is_exhaustion
        THEN [verdict |-> "NO TRADE", reason |-> "No Confirmation (RSI/Wick)",
              data |-> EmptyDict]
        ELSE _finalize_setup(cfg, model, pred, BuildSetup("SHORT", current_candle),
                             "SHORT", trend, liquidity_event, is_exhaustion, rsi_div,
                             current_candle, smc_data)

_analyze_long_setup(cfg, model, pred, d, smc_data, trend, current_candle, prev_candle) ==
    LET pd_zone == smc_data.premium_discount
        mss == smc_data.market_structure_shift
        liquidity_event == IF LongSweep(d, current_candle)
                           THEN "Local Low Sweep" ELSE "None"
        is_exhaustion == LongExhaustion(current_candle)
        rsi_div == LongDivergence(current_candle, prev_candle)
    IN  IF pd_zone.zone \notin valid_zones_long
        THEN [verdict |-> "NO TRADE",
              reason |-> "Not in Discount Zone (Current: " \o pd_zone.zone \o ")",
              data |-> EmptyDict, smc |-> smc_data]
        ELSE IF mss # NoMss /\ mss.type = "Bearish MSS"
        THEN [verdict |-> "NO TRADE",
              reason |-> "Bearish Market Structure Shift detected",
              data |-> EmptyDict, smc |-> smc_data]
        ELSE IF liquidity_event = "None"
        THEN [verdict |-> "NO TRADE", reason |-> "No Liquidity Sweep (Lows)",
              data |-> EmptyDict]
        ELSE IF ~rsi_div /\ ~is_exhaustion
        THEN [verdict |-> "NO TRADE", reason |-> "No Confirmation (RSI/Wick)",
              data |-> EmptyDict]
        ELSE _finalize_setup(cfg, model, pred, BuildSetup("LONG", current_candle),
                             "LONG", trend, liquidity_event, is_exhaustion, rsi_div,
                             current_candle, smc_data)

\* Faulty variant: the boundary excluded
NewsGateRejects_exclusive(impact) == impact.mins60 < NewsWindowMinutes * SecondsPerMinute

\* mins_to_event <= 15
NewsGateRejects(impact) == impact.mins60 <= NewsWindowMinutes * SecondsPerMinute

\* Faulty variant: the short branch evaluated whatever the trend
ShortEvaluated_any_trend(target_direction, trend) ==
    target_direction \in {"SHORT", "BOTH"}

\* The branches analyze_market evaluates for a direction mode and a trend, in order
ShortEvaluated(target_direction, trend) ==
    target_direction \in {"SHORT", "BOTH"} /\ trend # "Bullish"

LongEvaluated(target_direction, trend) ==
    target_direction \in {"LONG", "BOTH"} /\ trend # "Bearish"

\* One call of analyze_market: what it returns (or raises) and the stages it entered
AnalyzeMarketRun(a, cfg, d, pred) ==
    LET smc_data == analyze_all(d)
        impact == get_seconds_to_impact(a.news_df)
        n == Len(d)
        current_candle == At(d, n - 1)
        prev_candle == At(d, n - 2)
        trend == HtfTrend(d)
        mode == a.target_direction
        short_result == _analyze_short_setup(cfg, a.ml_classifier, pred, d, smc_data,
                                             trend, current_candle, prev_candle)
        long_result == _analyze_long_setup(cfg, a.ml_classifier, pred, d, smc_data,
                                           trend, current_candle, prev_candle)
        no_setup == [verdict |-> "NO TRADE",
                     reason |-> "No valid setup found in requested direction",
                     data |-> [instrument |-> a.instrument_name]]
    IN  IF Raised(smc_data)
        THEN [result |-> smc_data, steps |-> <<"smc">>]
        ELSE IF NewsGateRejects(impact)
        THEN [result |-> [verdict |-> "NO TRADE",
                          reason |-> "High Impact News: " \o impact.title \o " in "
                                     \o ToString(RoundHalfEven(impact.mins60, SecondsPerMinute))
                                     \o " min",
                          data |-> [news_event_proximity_minutes |-> impact.mins60]],
              steps |-> <<"smc", "news">>]
        ELSE IF n < 2
        THEN [result |-> Raise("IndexError"),   \* df.iloc[-2]
              steps |-> <<"smc", "news">>]
        ELSE IF mode = "SHORT" /\ trend = "Bullish"
        THEN [result |-> [verdict |-> "NO TRADE", reason |-> "Strong Bullish Momentum",
                          data |-> EmptyDict],
              steps |-> <<"smc", "news", "trend">>]
        ELSE IF ShortEvaluated(mode, trend) /\ short_result.verdict = "VALID SETUP"
        THEN [result |-> short_result, steps |-> <<"smc", "news", "trend", "short">>]
        ELSE IF mode = "LONG" /\ trend = "Bearish"
        THEN [result |-> [verdict |-> "NO TRADE", reason |-> "Strong Bearish Momentum",
                          data |-> EmptyDict],
              steps |-> <<"smc", "news", "trend">>]
        ELSE IF LongEvaluated(mode, trend) /\ long_result.verdict = "VALID SETUP"
        THEN [result |-> long_result,
              steps |-> <<"smc", "news", "trend">>
                        \o (IF ShortEvaluated(mode, trend) THEN <<"short">> ELSE << >>)
                        \o <<"long">>]
        ELSE [result |-> no_setup,
              steps |-> <<"smc", "news", "trend">>
                        \o (IF ShortEvaluated(mode, trend) THEN <<"short">> ELSE << >>)
                        \o (IF LongEvaluated(mode, trend) THEN <<"long">> ELSE << >>)]

analyze_market(a, cfg, d, pred) == AnalyzeMarketRun(a, cfg, d, pred).result

----------------------------------------------------------------------------
(* Inputs: configurations, calendars, models and bar series *)

\* Lengths of the runs the bar series are built from
ShortRun == 1
SwingRun == 6
LongRun == 38
BreakRun == 11

BaseConfig ==
    [max_trades_per_day |-> 2,
     consecutive_loss_stop_count |-> 2,
     max_daily_drawdown_percent |-> 5,
     min_risk_reward_ratio |-> 2 * RRScale,
     max_spread_pips |-> 5,
     min_probability_threshold |-> 60]

PipelineConfigs ==
    { BaseConfig,
      [BaseConfig EXCEPT !.max_spread_pips = 0],
      [BaseConfig EXCEPT !.min_risk_reward_ratio = (3 * RRScale) \div 2,
                         !.min_probability_threshold = 35] }

RiskConfigs ==
    { BaseConfig,
      [BaseConfig EXCEPT !.max_daily_drawdown_percent = 0],
      [BaseConfig EXCEPT !.max_trades_per_day = 1, !.consecutive_loss_stop_count = 1] }

\* Arguments of direct validate_setup calls, at and around the thresholds
RRArgs == {0, (3 * RRScale) \div 2, 2 * RRScale - 1, 2 * RRScale, 2 * RRScale + 1}
SpreadArgs == {0, 1, 5, 6}
ProbArgs == {0, 59, 60, 61, 100}

\* Caps on the counters
MaxTradesRecorded == 3
MaxLossesCounted == 3

Event(title, diff_seconds) == [title |-> title, diff_seconds |-> diff_seconds]

PipelineCalendars == { << >>, <<Event("NFP", 15 * SecondsPerMinute)>> }

\* Calendars around the 15-minute window: events 14, 15, 15.5 and 16 minutes away,
\* past and future, alone and in pairs
NewsCalendars ==
    { << >>,
      <<Event("CPI", 14 * SecondsPerMinute)>>,
      <<Event("NFP", 15 * SecondsPerMinute)>>,
      <<Event("FOMC", -15 * SecondsPerMinute)>>,
      <<Event("PPI", 15 * SecondsPerMinute + 30)>>,
      <<Event("GDP", 16 * SecondsPerMinute)>>,
      <<Event("ISM", -16 * SecondsPerMinute)>>,
      <<Event("GDP", 16 * SecondsPerMinute), Event("FOMC", -14 * SecondsPerMinute)>>,
      <<Event("PPI", 20 * SecondsPerMinute), Event("ISM", -20 * SecondsPerMinute)>> }

PipelineModels == {"none", "fitted"}

Predictions == {PredProb(40), PredProb(90)}

DirectionModes == {"SHORT", "LONG", "BOTH"}

\* Run bars: a wide bar closing high, a wide bar closing low, a narrower inside bar
RunHigh == Candle(7, 9, 1, 8)
RunLow == Candle(3, 9, 1, 2)
RunInside == Candle(4, 8, 2, 5)

CurrentBars ==
    { Candle(o, h, l, c) : o \in {3, 7}, h \in {8, 10}, l \in {0, 2},
                           c \in {1, 3, 5, 7, 10} }

WellFormed(b) == b.Low <= b.Open /\ b.Open <= b.High
                 /\ b.Low <= b.Close /\ b.Close <= b.High

Tails ==
    { << >> } \cup { <<b>> : b \in {x \in CurrentBars : WellFormed(x)} }
    \cup { <<Candle(10, 10, 10, 10)>>, <<Candle(0, 0, 0, 0)>>, <<Candle(1, 8, 0, 1)>> }

\* The bar series fetch_data can hand over, as the candles downloaded: a run of
\* wide bars, a run of inside bars, then the current bar; or inside bars alone for
\* all of the mean's window but the current bar; or inside bars up to the first
\* row with an RSI, a previous bar closing up or down, then the current bar; or a
\* bullish bar and a strong bearish one (a bearish order block) before a current
\* bar that sweeps the lows; or wide bars for all of the mean's window but a bar
\* closing up and a current bar sweeping the highs and closing lower
PipelineSeries ==
    { Indicators(s) : s \in
        { Rep(a, k1) \o Rep(RunInside, k2) \o t :
            a \in {RunHigh, RunLow}, k1 \in {0, ShortRun, SwingRun, LongRun},
            k2 \in {0, BreakRun}, t \in Tails }
        \cup { Rep(RunInside, SmaWindow - 1) \o t : t \in Tails }
        \cup { Rep(RunInside, IndicatorPeriod - 1) \o <<p>> \o t :
                 p \in {Candle(5, 9, 3, 8), Candle(3, 8, 1, 1)}, t \in Tails }
        \cup { Rep(RunInside, IndicatorPeriod - 2)
                  \o <<Candle(4, 6, 3, 5), Candle(5, 5, 1, 2), Candle(2, 4, 0, 3)>> }
        \cup { Rep(a, SmaWindow - 2) \o <<Candle(7, 9, 1, 9), Candle(7, 10, 0, 7)>> :
                 a \in {RunHigh, RunLow} } }

----------------------------------------------------------------------------
(* State machine *)

NoAnalyst == [target_direction |-> "None"]
NoResult == [verdict |-> "None"]
NoRun == [pc |-> "idle"]
NoCall == [op |-> "None"]

\* RiskManager.__init__ with the given configuration file
InitWith(configs) ==
    /\ config \in configs
    /\ daily_trades = 0
    /\ consecutive_losses = 0
    /\ current_daily_drawdown = 0
    /\ analyst = NoAnalyst
    /\ df = << >>
    /\ prediction = PredRaises
    /\ steps = << >>
    /\ result = NoResult
    /\ last_call = NoCall
    /\ live = NoRun

\* MarketAnalyst.__init__: fetch_economic_calendar() gives the calendar,
\* SetupSuccessClassifier() loads or creates the model
MarketAnalystInit(modes, calendars, models) ==
    /\ analyst = NoAnalyst
    /\ \E mode \in modes, news \in calendars, model \in models :
          analyst' = [instrument_name |-> "XAU/USD", asset_class |-> "forex",
                      target_direction |-> mode, news_df |-> news,
                      ml_classifier |-> model]
    /\ UNCHANGED <<live, config, daily_trades, consecutive_losses, current_daily_drawdown,
                   df, prediction, steps, result, last_call>>

\* analyst.analyze_market(df)
AnalyzeMarketOn(series) ==
    /\ analyst # NoAnalyst
    /\ result = NoResult
    /\ \E d \in series :
       \E pred \in (IF analyst.ml_classifier = "fitted" THEN Predictions \cup {PredRaises}
                    ELSE {PredRaises}) :
          LET run == AnalyzeMarketRun(analyst, config, d, pred)
          IN  /\ df' = d
              /\ prediction' = pred
              /\ result' = run.result
              /\ steps' = run.steps
    /\ UNCHANGED <<live, config, daily_trades, consecutive_losses, current_daily_drawdown,
                   analyst, last_call>>

\* The three runtime counters
Counters == <<daily_trades, consecutive_losses, current_daily_drawdown>>

\* risk_manager.can_trade(last_outcome_was_loss)
CanTrade(last_outcome_was_loss) ==
    /\ consecutive_losses < MaxLossesCounted
    /\ consecutive_losses' = can_trade_losses(consecutive_losses, last_outcome_was_loss)
    /\ last_call' =
          IF can_trade_key_error(config, daily_trades, consecutive_losses',
                                 current_daily_drawdown)
          THEN [op |-> "can_trade", args |-> <<last_outcome_was_loss>>,
                before |-> Counters, exception |-> "KeyError"]
          ELSE [op |-> "can_trade",
                args |-> <<last_outcome_was_loss>>,
                before |-> Counters,
                ret |-> can_trade_checks(config, daily_trades, consecutive_losses',
                                         current_daily_drawdown)]
    /\ UNCHANGED <<live, config, daily_trades, current_daily_drawdown,
                   analyst, df, prediction, steps, result>>

\* risk_manager.validate_setup(rr_ratio, spread, prob_score)
ValidateSetup(rr_ratio, spread, prob_score) ==
    /\ last_call' =
          IF validate_setup_key_error(config, rr_ratio, spread, prob_score)
          THEN [op |-> "validate_setup", args |-> <<rr_ratio, spread, prob_score>>,
                before |-> Counters, exception |-> "KeyError"]
          ELSE [op |-> "validate_setup",
                args |-> <<rr_ratio, spread, prob_score>>,
                before |-> Counters,
                ret |-> validate_setup(config, rr_ratio, spread, prob_score)]
    /\ UNCHANGED <<live, config, daily_trades, consecutive_losses, current_daily_drawdown,
                   analyst, df, prediction, steps, result>>

\* risk_manager.check_session(current_time_utc)
CheckSession(current_time_utc) ==
    /\ last_call' =
          IF check_session_key_error(config)
          THEN [op |-> "check_session", args |-> <<current_time_utc>>,
                before |-> Counters, exception |-> "KeyError"]
          ELSE [op |-> "check_session",
                args |-> <<current_time_utc>>,
                before |-> Counters,
                ret |-> check_session(config, current_time_utc)]
    /\ UNCHANGED <<live, config, daily_trades, consecutive_losses, current_daily_drawdown,
                   analyst, df, prediction, steps, result>>

\* RiskManager(): __init__ loads the configuration file
NoConfig == [constructed |-> FALSE]
Constructed == config # NoConfig /\ ~Raised(config)

RiskManagerNew(raws) ==
    /\ config = NoConfig
    /\ \E raw \in raws : config' = RiskManagerInit(raw)
    /\ UNCHANGED <<live, daily_trades, consecutive_losses, current_daily_drawdown,
                   analyst, df, prediction, steps, result, last_call>>

\* risk_manager.record_trade()
RecordTrade ==
    /\ daily_trades < MaxTradesRecorded
    /\ daily_trades' = daily_trades + 1
    /\ last_call' = [op |-> "record_trade", args |-> << >>, before |-> Counters,
                     ret |-> "None"]
    /\ UNCHANGED <<live, config, consecutive_losses, current_daily_drawdown,
                   analyst, df, prediction, steps, result>>

Init == InitWith(PipelineConfigs)

NewMarketAnalyst == MarketAnalystInit(DirectionModes, PipelineCalendars, PipelineModels)

AnalyzeMarket == AnalyzeMarketOn(PipelineSeries)

Next == NewMarketAnalyst \/ AnalyzeMarket

Spec == Init /\ [][Next]_vars

\* The risk manager on its own: any sequence of its three methods
InitRisk == InitWith(RiskConfigs)

CanTradeCall == \E last_outcome_was_loss \in BOOLEAN : CanTrade(last_outcome_was_loss)

ValidateSetupCall ==
    \E rr_ratio \in RRArgs, spread \in SpreadArgs, prob_score \in ProbArgs :
        ValidateSetup(rr_ratio, spread, prob_score)

NextRisk == CanTradeCall \/ ValidateSetupCall \/ RecordTrade

SpecRisk == InitRisk /\ [][NextRisk]_vars

\* The news gate: every calendar, a few bar series
NewsSeries ==
    { Indicators(s) : s \in
        { << >>, <<RunHigh>>, <<RunHigh, RunLow>>,
          Rep(RunHigh, SwingRun) \o <<Candle(7, 10, 0, 7)>>,
          Rep(RunLow, SwingRun) \o <<Candle(3, 10, 0, 3)>> } }

NewMarketAnalystNews == MarketAnalystInit(DirectionModes, NewsCalendars, {"none"})

AnalyzeMarketNews == AnalyzeMarketOn(NewsSeries)

NextNews == NewMarketAnalystNews \/ AnalyzeMarketNews

SpecNews == Init /\ [][NextNews]_vars

\* The classifier on its own, from its construction: training runs, then one
\* scoring call on every combination of the features it reads
ScorerMarketData ==
    { [htf_trend |-> trend, liquidity_event_type |-> liq,
       rsi_divergence |-> rsi, has_large_wick |-> wick] :
        trend \in {"Bearish", "Bullish", "Ranging"},
        liq \in {"None", "Local High Sweep"},
        rsi \in BOOLEAN, wick \in BOOLEAN }

ScorerSmcData ==
    { [premium_discount |-> [position |-> position],
       order_blocks |-> [bearish |-> obs, bullish |-> << >>],
       market_structure_shift |-> mss] :
        position \in {[num |-> 3, den |-> 10], [num |-> 7, den |-> 10],
                      [num |-> 4, den |-> 5]},
        obs \in {<< >>, <<[type |-> "Bearish OB"]>>},
        mss \in {NoMss, [type |-> "Bearish MSS"], [type |-> "Bullish MSS"]} }

ScorerPredictions == {PredRaises, PredProb(0), PredProb(40), PredProb(100)}

\* The pickle at model_path: missing, written by _save_model, or unreadable
ModelFiles == {"absent", "fitted", "unreadable"}

\* SetupSuccessClassifier.__init__: no model without xgboost, else the pickled
\* model when the file loads and a new untrained one otherwise
_load_or_create_model(sklearn_available, model_file) ==
    IF ~sklearn_available THEN "none"
    ELSE IF model_file = "fitted" THEN "fitted"
    ELSE "unfitted"

SetupSuccessClassifier(sklearn_available, model_file) ==
    [target_direction |-> "None",
     ml_classifier |-> _load_or_create_model(sklearn_available, model_file),
     model_file |-> model_file]

\* classifier.train_on_historical_data(historical_df) on a frame of that many rows:
\* fits scaler and model and saves the pickle, unless xgboost is missing or the
\* frame is too short
train_on_historical_data(classifier, samples) ==
    IF classifier.ml_classifier = "none" THEN classifier
    ELSE IF samples < MinTrainingSamples THEN classifier
    ELSE [classifier EXCEPT !.ml_classifier = "fitted", !.model_file = "fitted"]

Scored == last_call.op \in {"predict_success_probability", "_fallback_probability"}

\* classifier.predict_success_probability(market_data, smc_data)
PredictSuccessProbability ==
    /\ ~Scored
    /\ \E pred \in ScorerPredictions,
          market_data \in ScorerMarketData, smc_data \in ScorerSmcData :
          last_call' = [op |-> "predict_success_probability",
                        args |-> <<analyst.ml_classifier, pred, market_data, smc_data>>,
                        ret |-> predict_success_probability(analyst.ml_classifier, pred,
                                                            market_data, smc_data)]
    /\ UNCHANGED <<live, config, daily_trades, consecutive_losses, current_daily_drawdown,
                   analyst, df, prediction, steps, result>>

\* classifier._fallback_probability(market_data, smc_data)
FallbackProbability ==
    /\ ~Scored
    /\ \E market_data \in ScorerMarketData, smc_data \in ScorerSmcData :
          last_call' = [op |-> "_fallback_probability",
                        args |-> <<market_data, smc_data>>,
                        ret |-> _fallback_probability(market_data, smc_data)]
    /\ UNCHANGED <<live, config, daily_trades, consecutive_losses, current_daily_drawdown,
                   analyst, df, prediction, steps, result>>

\* train_model.py: classifier.train_on_historical_data(historical_df)
TrainOnHistoricalData ==
    /\ ~Scored
    /\ \E samples \in {MinTrainingSamples - 1, MinTrainingSamples} :
          /\ analyst' = train_on_historical_data(analyst, samples)
          /\ last_call' = [op |-> "train_on_historical_data", args |-> <<samples>>,
                           before |-> analyst, ret |-> "None"]
    /\ UNCHANGED <<live, config, daily_trades, consecutive_losses, current_daily_drawdown,
                   df, prediction, steps, result>>

\* SetupSuccessClassifier() constructed again in the same process, on the file as it is
NewClassifier ==
    /\ last_call.op = "train_on_historical_data"
    /\ analyst' = SetupSuccessClassifier(analyst.ml_classifier # "none", analyst.model_file)
    /\ last_call' = [op |-> "SetupSuccessClassifier", args |-> << >>,
                     before |-> analyst, ret |-> "None"]
    /\ UNCHANGED <<live, config, daily_trades, consecutive_losses, current_daily_drawdown,
                   df, prediction, steps, result>>

InitScorer ==
    /\ config = BaseConfig
    /\ daily_trades = 0
    /\ consecutive_losses = 0
    /\ current_daily_drawdown = 0
    /\ \E sklearn_available \in BOOLEAN, model_file \in ModelFiles :
          analyst = SetupSuccessClassifier(sklearn_available, model_file)
    /\ df = << >>
    /\ prediction = PredRaises
    /\ steps = << >>
    /\ result = NoResult
    /\ last_call = NoCall
    /\ live = NoRun

NextScorer ==
    PredictSuccessProbability \/ FallbackProbability \/ TrainOnHistoricalData
        \/ NewClassifier

SpecScorer == InitScorer /\ [][NextScorer]_vars

\* The risk manager from its construction: RiskManager() on a configuration file,
\* then any sequence of can_trade, validate_setup and check_session
HM(hh, mm) == strftime_HM(60 * hh + mm)

SessionWindows ==
    { [london_start_utc |-> HM(7, 0), london_end_utc |-> HM(16, 0),
       new_york_start_utc |-> HM(12, 0), new_york_end_utc |-> HM(17, 0)],
      [london_start_utc |-> HM(8, 0), london_end_utc |-> HM(11, 30),
       new_york_start_utc |-> HM(13, 30), new_york_end_utc |-> HM(20, 0)] }

RuleKeys == {"max_trades_per_day", "consecutive_loss_stop_count",
             "max_daily_drawdown_percent", "min_risk_reward_ratio"}
FilterKeys == {"max_spread_pips", "min_probability_threshold"}

FullRaw(hours) ==
    [risk_rules_locked |-> [k \in RuleKeys |-> BaseConfig[k]],
     filters |-> [k \in FilterKeys |-> BaseConfig[k]],
     trading_hours |-> hours]

WithoutKey(raw, section, key) ==
    [raw EXCEPT ![section] = [k \in DOMAIN raw[section] \ {key} |-> raw[section][k]]]

WithoutSection(raw, section) == [k \in DOMAIN raw \ {section} |-> raw[k]]

\* Configuration files: complete ones, ones lacking one threshold or one session
\* bound, ones lacking a whole section, and no file at all
RawConfigs ==
    LET full == FullRaw(CHOOSE hours \in SessionWindows : hours.london_start_utc = HM(7, 0))
    IN  { FullRaw(hours) : hours \in SessionWindows }
        \cup { WithoutKey(full, "risk_rules_locked", k) : k \in RuleKeys }
        \cup { WithoutKey(full, "filters", k) : k \in FilterKeys }
        \cup { WithoutKey(full, "trading_hours", k) : k \in TradingHoursKeys }
        \cup { WithoutSection(full, section) :
                 section \in {"risk_rules_locked", "filters", "trading_hours"} }
        \cup { NoFile }

\* Times of day, in minutes since 00:00 UTC, on and around the window bounds
SessionTimes ==
    { 60 * hh + mm : hh \in {0, 6, 7, 8, 11, 12, 13, 15, 16, 17, 20, 23},
                     mm \in {0, 1, 29, 30, 31, 59} }

InitConfig == InitWith({NoConfig})

NewRiskManager == RiskManagerNew(RawConfigs)

CanTradeConfigured == Constructed /\ CanTradeCall

ValidateSetupConfigured == Constructed /\ ValidateSetupCall

CheckSessionCall ==
    Constructed /\ \E current_time_utc \in SessionTimes : CheckSession(current_time_utc)

NextConfig ==
    NewRiskManager \/ CanTradeConfigured \/ ValidateSetupConfigured \/ CheckSessionCall

SpecConfig == InitConfig /\ [][NextConfig]_vars

----------------------------------------------------------------------------
(* Live mode of main(): one run over the enabled instruments *)

\* The enabled instruments of trading_config.json, in file order
Instruments ==
    << [display_name |-> "XAU/USD", asset_class |-> "forex"],
       [display_name |-> "BTC/USD", asset_class |-> "crypto"] >>

\* --symbol: none, an enabled instrument, an unknown one
SymbolArgs == {"", "BTC/USD", "ETH/USD"}

\* --session: a session name, or not given ("AUTO": the session is detected)
SessionArgs == {"AUTO", "LONDON", "NEW_YORK"}

\* datetime.utcnow() when the run starts, in minutes since 00:00 UTC
LiveTimes == {6 * 60, 9 * 60, 16 * 60 + 30}

\* Configurations of the live run: the thresholds with the session windows
LiveConfigs ==
    { RiskManagerInit([FullRaw(hours) EXCEPT
                          !.risk_rules_locked.max_trades_per_day = trades,
                          !.risk_rules_locked.min_risk_reward_ratio = rr,
                          !.filters.min_probability_threshold = prob]) :
        hours \in {h \in SessionWindows : h.london_start_utc = HM(7, 0)},
        <<trades, rr, prob>> \in {<<2, 2 * RRScale, 60>>, <<2, (3 * RRScale) \div 2, 35>>,
                                  <<0, 2 * RRScale, 60>>} }

\* The model file and what its prediction does, per instrument
LiveScorers ==
    { [model |-> "none", pred |-> PredRaises], [model |-> "fitted", pred |-> PredProb(90)] }

\* What fetch_data returns when it returns: never an empty frame (it raises).  The
\* download reports a volume per candle or none at all.
LiveSeries ==
    { fetch_data(IF quoted THEN s ELSE Unquoted(s)) :
        quoted \in BOOLEAN,
        s \in { Rep(shape[1], shape[2]) \o Rep(RunInside, shape[3]) \o <<t>> :
                  shape \in {<<RunHigh, 0, 0>>, <<RunHigh, SwingRun, 0>>,
                             <<RunLow, LongRun, BreakRun>>, <<RunLow, ShortRun, 0>>},
                  t \in {Candle(7, 10, 2, 7), Candle(7, 10, 2, 10), Candle(3, 8, 2, 5),
                         Candle(7, 10, 0, 7), Candle(1, 8, 0, 1)} } }

\* smc_defaults of save_snapshot
SmcDefaults ==
    [premium_position |-> 0, in_premium_zone |-> 0, bearish_ob_count |-> 0,
     bullish_ob_count |-> 0, fvg_count |-> 0, has_bearish_mss |-> 0, has_bullish_mss |-> 0]

\* The columns save_snapshot inserts
SnapshotColumns ==
    {"session", "htf_trend", "htf_structure", "key_resistance_level",
     "liquidity_event_type", "has_large_wick", "consecutive_bullish_candles",
     "atr_value", "rsi_divergence", "vwap_distance", "volume_spike", "spread_value",
     "news_event_proximity_minutes"} \cup DOMAIN SmcDefaults

\* save_snapshot(data): the dict as the call leaves it (missing SMC keys set to
\* their defaults) and the row inserted, or KeyError on a missing column.  sqlite3
\* stores a NaN as NULL, read back as None.
save_snapshot(data) ==
    LET filled == data @@ SmcDefaults
        Stored(k) == IF k \in {"atr_value", "vwap_distance"} /\ filled[k] = NaN
                     THEN "None" ELSE filled[k]
    IN  IF SnapshotColumns \subseteq DOMAIN filled
        THEN [data |-> filled, row |-> [k \in SnapshotColumns |-> Stored(k)]]
        ELSE [data |-> filled, exception |-> "KeyError"]

\* save_trade_plan(snapshot_id, plan): the row inserted; the plan is only read
save_trade_plan(snapshot_id, plan) ==
    [snapshot_id |-> snapshot_id, direction |-> plan.direction,
     entry_zone_start |-> plan.entry_zone_start, entry_zone_end |-> plan.entry_zone_end,
     stop_loss |-> plan.stop_loss, tp1 |-> plan.tp1, tp2 |-> plan.tp2,
     estimated_rr |-> plan.estimated_rr, probability_score |-> plan.probability_score,
     status |-> "PENDING"]

\* Faulty variant: an analyst built without a mode looks in both directions
DefaultTargetDirection_both == "BOTH"

\* MarketAnalyst(..., target_direction="SHORT"): live mode passes no mode
DefaultTargetDirection == "SHORT"

\* can_trade(self, last_outcome_was_loss: bool = False): live mode passes nothing
DefaultLossFlag == FALSE

\* Faulty variant: an iteration that found a setup records a trade
LoopDailyTrades_recorded(trades, verdict) ==
    IF verdict = "VALID SETUP" THEN trades + 1 ELSE trades

\* risk_manager.daily_trades after an iteration of the instrument loop that got
\* `verdict`: the loop calls neither record_trade nor can_trade
LoopDailyTrades(trades, verdict) == trades

\* main(), live mode, up to the instrument loop: the configuration is loaded, the
\* session taken from the arguments or detected, can_trade() asked, the
\* instruments listed and filtered.  can_trade_calls counts the calls of can_trade
\* and at_gate keeps the counters as that call left them.
LiveStart ==
    /\ live = NoRun
    /\ \E loaded \in BOOLEAN, session_arg \in SessionArgs, now \in LiveTimes,
          symbol \in SymbolArgs :
          LET auto == session_arg = "AUTO"
              session == IF auto THEN check_session(config, now) ELSE session_arg
              instruments == IF symbol = "" THEN Instruments
                             ELSE SelectSeq(Instruments, LAMBDA i : i.display_name = symbol)
              asked == /\ loaded
                       /\ ~(auto /\ check_session_key_error(config))
                       /\ ~(auto /\ session = "None")
              losses == IF asked THEN can_trade_losses(consecutive_losses, DefaultLossFlag)
                        ELSE consecutive_losses
              gate == [can_trade_calls |-> IF asked THEN 1 ELSE 0,
                       at_gate |-> <<daily_trades, losses, current_daily_drawdown>>]
          IN  /\ consecutive_losses' = losses
              /\ live' = gate @@
                 (IF ~loaded THEN [pc |-> "config error"]
                  ELSE IF auto /\ check_session_key_error(config)
                  THEN [pc |-> "crashed", exception |-> "KeyError"]
                  ELSE IF auto /\ session = "None" THEN [pc |-> "market closed"]
                  ELSE IF can_trade_key_error(config, daily_trades, losses,
                                              current_daily_drawdown)
                  THEN [pc |-> "crashed", exception |-> "KeyError"]
                  ELSE IF ~can_trade_checks(config, daily_trades, losses,
                                            current_daily_drawdown)[1]
                  THEN [pc |-> "risk stop"]
                  ELSE IF symbol # "" /\ instruments = << >>
                  THEN [pc |-> "symbol not found"]
                  ELSE [pc |-> "loop", session |-> session, instruments |-> instruments,
                        valid_setups |-> << >>, snapshots |-> << >>,
                        trade_plans |-> << >>, emails |-> << >>])
    /\ UNCHANGED <<config, daily_trades, current_daily_drawdown,
                   analyst, df, prediction, steps, result, last_call>>

\* One iteration of the instrument loop whose fetch_data raises: the instrument is
\* skipped
LiveFetchError ==
    /\ live.pc = "loop"
    /\ live.instruments # << >>
    /\ live' = [live EXCEPT !.instruments = Tail(@)]
    /\ UNCHANGED <<config, daily_trades, consecutive_losses, current_daily_drawdown,
                   analyst, df, prediction, steps, result, last_call>>

\* One iteration of the instrument loop on fetched bars: a new analyst in its
\* default mode, analyze_market, the session and instrument written into the
\* result's data dict, and on VALID SETUP the snapshot and the plan saved and the
\* setup collected.  result is the returned dict as the iteration leaves it.
LiveInstrument ==
    /\ live.pc = "loop"
    /\ live.instruments # << >>
    /\ \E d \in LiveSeries, news \in PipelineCalendars, scorer \in LiveScorers :
       \E call \in {AnalyzeMarketRun([instrument_name |-> Head(live.instruments).display_name,
                                       asset_class |-> Head(live.instruments).asset_class,
                                       target_direction |-> DefaultTargetDirection, news_df |-> news,
                                       ml_classifier |-> scorer.model],
                                      config, d, scorer.pred)} :
          LET instrument == Head(live.instruments)
              a == [instrument_name |-> instrument.display_name,
                    asset_class |-> instrument.asset_class,
                    target_direction |-> DefaultTargetDirection, news_df |-> news,
                    ml_classifier |-> scorer.model]
              returned == call.result
              setup_data == ("session" :> live.session
                             @@ "instrument" :> instrument.display_name)
                            @@ (IF "data" \in DOMAIN returned THEN returned.data
                                ELSE EmptyDict)
              saved == save_snapshot(setup_data)
              snapshot_id == Len(live.snapshots) + 1
          IN  /\ analyst' = a
              /\ df' = d
              /\ prediction' = scorer.pred
              /\ steps' = call.steps
              /\ daily_trades' = LoopDailyTrades(daily_trades,
                                    IF Raised(returned) THEN "None" ELSE returned.verdict)
              /\ IF Raised(returned)
                 THEN /\ result' = returned
                      /\ live' = [pc |-> "crashed", exception |-> returned.exception,
                                  can_trade_calls |-> live.can_trade_calls,
                                  at_gate |-> live.at_gate]
                 ELSE IF returned.verdict # "VALID SETUP"
                 THEN /\ result' = IF "data" \in DOMAIN returned
                                   THEN [returned EXCEPT !.data = setup_data]
                                   ELSE returned
                      /\ live' = [live EXCEPT !.instruments = Tail(@)]
                 ELSE IF Raised(saved)
                 THEN /\ result' = [returned EXCEPT !.data = saved.data]
                      /\ live' = [pc |-> "crashed", exception |-> saved.exception,
                                  can_trade_calls |-> live.can_trade_calls,
                                  at_gate |-> live.at_gate]
                 ELSE /\ result' = [returned EXCEPT !.data = saved.data]
                      /\ live' = [live EXCEPT
                            !.instruments = Tail(@),
                            !.snapshots = Append(@, saved.row),
                            !.trade_plans = Append(@, save_trade_plan(snapshot_id,
                                                                      returned.plan)),
                            !.valid_setups = Append(@,
                                [instrument |-> instrument.display_name,
                                 plan |-> returned.plan, data |-> saved.data])]
    /\ UNCHANGED <<config, consecutive_losses, current_daily_drawdown, last_call>>

\* After the loop: send_trade_alert(setup['plan'], setup['data']) per collected setup
LiveFinish ==
    /\ live.pc = "loop"
    /\ live.instruments = << >>
    /\ live' = [live EXCEPT !.pc = "done",
                            !.emails = [i \in 1..Len(live.valid_setups) |->
                                          [plan |-> live.valid_setups[i].plan,
                                           data |-> live.valid_setups[i].data]]]
    /\ UNCHANGED <<config, daily_trades, consecutive_losses, current_daily_drawdown,
                   analyst, df, prediction, steps, result, last_call>>

InitLive == InitWith(LiveConfigs)

NextLive == LiveStart \/ LiveFetchError \/ LiveInstrument \/ LiveFinish

SpecLive == InitLive /\ [][NextLive]_vars

----------------------------------------------------------------------------
(* The detector alone: SMC_Detector(df) on a bar series, then one of its methods *)

\* Most pieces a series of the order-block and gap families is built from
MaxUnits == 4
MaxLevelRun == 5

\* Every concatenation of at most n of the pieces
RECURSIVE RunsOver(_, _)
RunsOver(pieces, n) ==
    IF n = 0 THEN { << >> }
    ELSE { << >> } \cup { p \o s : p \in pieces, s \in RunsOver(pieces, n - 1) }

FlatBar == Candle(5, 5, 5, 5)

\* Two-bar units: a bullish candle then a strong bearish one closing 1, 2 or 3
\* below its low; a bearish candle then a strong bullish one closing 1 or 3 above
\* its high
ObUnits ==
    { <<Candle(4, 6, 3, 5), Candle(5, 5, 1, 2)>>,
      <<Candle(4, 6, 3, 5), Candle(5, 5, 0, 1)>>,
      <<Candle(4, 6, 3, 5), Candle(5, 5, 0, 0)>>,
      <<Candle(5, 6, 3, 4), Candle(4, 8, 4, 7)>>,
      <<Candle(5, 6, 3, 4), Candle(4, 9, 4, 9)>> }

\* Flat bars up to the first scanned index, or a unit ending just before it, then units
OrderBlockSeries ==
    { lead \o s :
        lead \in { Rep(FlatBar, swing_lookback),
                   Rep(FlatBar, swing_lookback - 2)
                      \o <<Candle(4, 6, 3, 5), Candle(5, 5, 0, 0)>> },
        s \in RunsOver(ObUnits, MaxUnits) }

\* Bars on three price levels that do not overlap: [0,1], [3,4], [6,7]
LevelBars == { <<Candle(0, 1, 0, 1)>>, <<Candle(3, 4, 3, 4)>>, <<Candle(6, 7, 6, 7)>> }

GapSeries ==
    { lead \o s :
        lead \in { << >>,
                   <<Candle(0, 1, 0, 1), Candle(0, 1, 0, 1),
                     Candle(6, 7, 6, 7), Candle(6, 7, 6, 7)>> },
        s \in RunsOver(LevelBars, MaxLevelRun) }

\* A wide bar, then flat or narrow bars up to and past the 50-bar window, then the
\* current bar; flat series; the empty frame
ZoneSeries ==
    { << >> }
    \cup { Rep(FlatBar, k) : k \in {1, ZoneWindow, ZoneWindow + 1} }
    \cup { <<Candle(5, 10, 0, 5)>> \o Rep(f, k) \o <<b>> :
             f \in {FlatBar, Candle(4, 6, 4, 5)},
             k \in {0, ZoneWindow - 2, ZoneWindow - 1},
             b \in {FlatBar, Candle(4, 6, 4, 4), Candle(4, 6, 4, 5), Candle(4, 6, 4, 6)} }

\* A low base, a plateau whose low is or is not higher, a decline in steps of
\* swing_lookback bars holding a high that is or is not lower, and a last bar closing
\* below, between or at the plateau; a series too short for any swing
StructureSeries ==
    { Rep(FlatBar, 2 * swing_lookback) }
    \cup { Rep(Candle(5, 10, 2, 5), 2 * swing_lookback + 1)
           \o Rep(Candle(10, 10, plateau_low, 10), 2 * swing_lookback + 1)
           \o Rep(Candle(4, 5, 4, 5), swing_lookback)
           \o <<Candle(4, last_high, 3, 4)>>
           \o Rep(Candle(4, 5, 3, 4), swing_lookback - 1)
           \o <<Candle(3, 5, 2, 3)>>
           \o Rep(Candle(3, 9, 2, 3), swing_lookback - 1)
           \o <<Candle(2, 10, 1, close)>> :
             plateau_low \in {2, 10}, last_high \in {6, 10}, close \in {5, 8, 10} }

DetectorSeries ==
    { Indicators(s) : s \in OrderBlockSeries \cup GapSeries \cup ZoneSeries \cup StructureSeries }

\* SMC_Detector(df): the detector holds the frame it was given
InitSmc ==
    /\ config = BaseConfig
    /\ daily_trades = 0
    /\ consecutive_losses = 0
    /\ current_daily_drawdown = 0
    /\ analyst = NoAnalyst
    /\ df \in DetectorSeries
    /\ prediction = PredRaises
    /\ steps = << >>
    /\ result = NoResult
    /\ last_call = NoCall
    /\ live = NoRun

\* One method call on the detector: it changes nothing, its value or its exception
\* is what the caller gets
DetectorCall(op, args, value, raised) ==
    /\ last_call = NoCall
    /\ last_call' = IF raised
                    THEN [op |-> op, args |-> args, exception |-> value.exception]
                    ELSE [op |-> op, args |-> args, ret |-> value]
    /\ UNCHANGED <<live, config, daily_trades, consecutive_losses, current_daily_drawdown,
                   analyst, df, prediction, steps, result>>

DetectOrderBlocks ==
    \E direction \in {"bearish", "bullish"} :
       DetectorCall("detect_order_blocks", <<direction>>,
                    detect_order_blocks(df, direction), FALSE)

DetectFvg == DetectorCall("detect_fvg", << >>, detect_fvg(df), FALSE)

CalculatePremiumDiscount ==
    LET value == calculate_premium_discount(df)
    IN  DetectorCall("calculate_premium_discount", << >>, value, Raised(value))

DetectMarketStructureShift ==
    LET value == detect_market_structure_shift(df)
    IN  DetectorCall("detect_market_structure_shift", << >>, value, Raised(value))

AnalyzeAll ==
    LET value == analyze_all(df)
    IN  DetectorCall("analyze_all", << >>, value, Raised(value))

NextSmc ==
    \/ DetectOrderBlocks
    \/ DetectFvg
    \/ CalculatePremiumDiscount
    \/ DetectMarketStructureShift
    \/ AnalyzeAll

SpecSmc == InitSmc /\ [][NextSmc]_vars

----------------------------------------------------------------------------
(* A branch alone: _analyze_short_setup or _analyze_long_setup on the frame, the
   SMC data and the trend analyze_market hands it *)

\* An older bar with the extreme high and low, quiet bars up to and around the
\* sweep lookback, then a current bar whose high (low) is beyond the quiet bars'
\* and beyond, at or within the older bar's
SweepSeries ==
    { lead \o <<Candle(5, 9, 1, 5)>> \o Rep(Candle(5, 7, 3, 5), quiet) \o <<t>> :
        lead \in { << >>, <<Candle(5, 7, 3, 5)>> },
        quiet \in {0, SweepLookback - 2, SweepLookback - 1, SweepLookback},
        t \in { Candle(6, 8, 4, 6), Candle(6, 10, 4, 6), Candle(6, 7, 4, 6),
                Candle(4, 6, 2, 4), Candle(4, 6, 0, 4), Candle(4, 6, 3, 4) } }

\* Quiet bars short of or up to the first row with an RSI, a previous bar closing
\* level, up or down, then a sweeping current bar whose wick is longer than, equal
\* to or shorter than its body and whose close is above or below the previous one
ConfirmationSeries ==
    { Rep(Candle(5, 9, 1, 5), lead) \o <<p, Candle(t[1], t[2], t[3], t[4])>> :
        lead \in {1, IndicatorPeriod - 1},
        p \in {Candle(5, 9, 1, 5), Candle(5, 9, 1, 8), Candle(5, 9, 1, 2)},
        t \in { <<7, 10, 2, 7>>, <<8, 10, 2, 9>>, <<7, 10, 2, 9>>, <<10, 10, 2, 7>>,
                <<3, 8, 0, 3>>, <<2, 8, 0, 1>>, <<3, 8, 0, 1>>, <<0, 8, 0, 3>> } }

\* A window spanning 0..1000 and a current bar closing on and next to the zone
\* thresholds; the current bar sweeps nothing
ThresholdSeries ==
    { <<Candle(0, 1000, 0, 500), Candle(500, 500, 500, 500), Candle(c, c, c, c)>> :
        c \in {0, 382, 383, 500, 501, 618, 619, 1000} }

BranchSeries == { Indicators(s) : s \in SweepSeries \cup ConfirmationSeries \cup ThresholdSeries }

\* MarketAnalyst(risk_manager, instrument_name, asset_class, target_direction) and the
\* frame analyze_market was given, past the news gate and the two iloc reads
InitBranch ==
    /\ config \in { BaseConfig,
                    [BaseConfig EXCEPT !.min_risk_reward_ratio = (3 * RRScale) \div 2,
                                       !.min_probability_threshold = 35] }
    /\ daily_trades = 0
    /\ consecutive_losses = 0
    /\ current_daily_drawdown = 0
    /\ \E instrument \in {Instruments[i] : i \in 1..Len(Instruments)},
          mode \in {"SHORT", "LONG"}, scorer \in LiveScorers :
          /\ analyst = [instrument_name |-> instrument.display_name,
                        asset_class |-> instrument.asset_class,
                        target_direction |-> mode, news_df |-> << >>,
                        ml_classifier |-> scorer.model]
          /\ prediction = scorer.pred
    /\ df \in BranchSeries
    /\ steps = << >>
    /\ result = NoResult
    /\ last_call = NoCall
    /\ live = NoRun

\* self._analyze_short_setup(df, smc_data, trend, current_candle, prev_candle), as
\* analyze_market calls it: the trend is not Bullish
AnalyzeShortSetup ==
    /\ last_call = NoCall
    /\ ShortEvaluated(analyst.target_direction, HtfTrend(df))
    /\ last_call' = [op |-> "_analyze_short_setup", args |-> <<HtfTrend(df)>>,
                     ret |-> _analyze_short_setup(config, analyst.ml_classifier, prediction,
                                                  df, analyze_all(df), HtfTrend(df),
                                                  At(df, Len(df) - 1), At(df, Len(df) - 2))]
    /\ UNCHANGED <<live, config, daily_trades, consecutive_losses, current_daily_drawdown,
                   analyst, df, prediction, steps, result>>

\* self._analyze_long_setup(df, smc_data, trend, current_candle, prev_candle), as
\* analyze_market calls it: the trend is not Bearish
AnalyzeLongSetup ==
    /\ last_call = NoCall
    /\ LongEvaluated(analyst.target_direction, HtfTrend(df))
    /\ last_call' = [op |-> "_analyze_long_setup", args |-> <<HtfTrend(df)>>,
                     ret |-> _analyze_long_setup(config, analyst.ml_classifier, prediction,
                                                 df, analyze_all(df), HtfTrend(df),
                                                 At(df, Len(df) - 1), At(df, Len(df) - 2))]
    /\ UNCHANGED <<live, config, daily_trades, consecutive_losses, current_daily_drawdown,
                   analyst, df, prediction, steps, result>>

NextBranch == AnalyzeShortSetup \/ AnalyzeLongSetup

SpecBranch == InitBranch /\ [][NextBranch]_vars

----------------------------------------------------------------------------
(* What the last analyze_market call was given, recomputed from the state *)

Analyzed == result # NoResult
Returned == Analyzed /\ ~Raised(result)
Entered(stage) == \E i \in 1..Len(steps) : steps[i] = stage

CurrentCandle == At(df, Len(df) - 1)
PrevCandle == At(df, Len(df) - 2)
NewsImpact == get_seconds_to_impact(analyst.news_df)

\* The call got past the news gate and the two iloc reads
ReachedTrend == Analyzed /\ Len(df) >= 2 /\ ~NewsGateRejects(NewsImpact)

\* What each branch gives on the inputs of the call, evaluated or not
ShortBranch ==
    _analyze_short_setup(config, analyst.ml_classifier, prediction, df, analyze_all(df),
                         HtfTrend(df), CurrentCandle, PrevCandle)
LongBranch ==
    _analyze_long_setup(config, analyst.ml_classifier, prediction, df, analyze_all(df),
                        HtfTrend(df), CurrentCandle, PrevCandle)

----------------------------------------------------------------------------
(* C1 *)

\* C1: whenever a branch is rejected by one of its gates, analyze_market returns
\* NO TRADE with that gate's reason: in SHORT (LONG) mode the reason of the rejected
\* short (long) branch, in BOTH mode a NO TRADE carries the reason of one of the
\* rejected branches.
C1_RejectedBranchReasonReturned ==
    (Returned /\ (Entered("short") \/ Entered("long")) /\ result.verdict # "VALID SETUP")
    => /\ result.verdict = "NO TRADE"
       /\ result.reason \in
            (IF Entered("short") THEN {ShortBranch.reason} ELSE {})
            \cup (IF Entered("long") THEN {LongBranch.reason} ELSE {})

(* C2 *)

\* C2: every NO TRADE result carries a non-empty reason and the structural snapshot
\* (the SMC data of the bar series).
C2_NoTradeCarriesSnapshot ==
    (Returned /\ result.verdict = "NO TRADE")
    => /\ result.reason # ""
       /\ "smc" \in DOMAIN result
       /\ result.smc = analyze_all(df)

(* C3 *)

C3_GatesPassed(direction) ==
    LET smc_data == analyze_all(df)
        zone == smc_data.premium_discount.zone
        mss == smc_data.market_structure_shift
        c == CurrentCandle
        p == PrevCandle
        before == {df[i] : i \in (Max2(0, Len(df) - SweepLookback) + 1)..(Len(df) - 1)}
        plan == result.plan
        trend == HtfTrend(df)
    IN  /\ direction = "SHORT" =>
              /\ analyst.target_direction \in {"SHORT", "BOTH"}
              /\ zone \in {"Premium", "Premium (Weak)", "Equilibrium"}
              /\ mss.type # "Bullish MSS"
              /\ \A b \in before : c.High > b.High
              /\ \/ c.High > p.High /\ c.RSI.den > 0 /\ p.RSI.den > 0
                    /\ c.RSI.num * p.RSI.den < p.RSI.num * c.RSI.den
                 \/ c.High - Max2(c.Close, c.Open) >= Abs(c.Close - c.Open)
              /\ plan.stop_loss = 10 * c.High + (c.High - c.Low)
              /\ plan.tp1 = plan.entry_zone_start - 2 * (plan.stop_loss - plan.entry_zone_start)
        /\ direction = "LONG" =>
              /\ analyst.target_direction \in {"LONG", "BOTH"}
              /\ zone \in {"Discount", "Discount (Weak)", "Equilibrium"}
              /\ mss.type # "Bearish MSS"
              /\ \A b \in before : c.Low < b.Low
              /\ \/ c.Low < p.Low /\ c.RSI.den > 0 /\ p.RSI.den > 0
                    /\ c.RSI.num * p.RSI.den > p.RSI.num * c.RSI.den
                 \/ Min2(c.Close, c.Open) - c.Low >= Abs(c.Close - c.Open)
              /\ plan.stop_loss = 10 * c.Low - (c.High - c.Low)
              /\ plan.tp1 = plan.entry_zone_start + 2 * (plan.entry_zone_start - plan.stop_loss)
        /\ plan.entry_zone_start = 10 * c.Close
        /\ plan.probability_score =
              predict_success_probability(analyst.ml_classifier, prediction,
                                          result.data, smc_data)
        /\ plan.estimated_rr >= config.min_risk_reward_ratio
        /\ SpreadTenths <= config.max_spread_pips
        /\ plan.probability_score >= config.min_probability_threshold
        /\ steps[Len(steps)] = (IF direction = "SHORT" THEN "short" ELSE "long")

\* C3: analyze_market returns VALID SETUP for a direction only if all seven gates
\* passed for it: zone accepted, no opposing MSS, sweep, confirmation, plan built,
\* probability scored, and R:R >= minimum, spread <= maximum, probability >= minimum.
C3_ValidOnlyIfAllGatesPassed ==
    (Returned /\ result.verdict = "VALID SETUP")
    => /\ result.plan.direction \in {"SHORT", "LONG"}
       /\ C3_GatesPassed(result.plan.direction)

\* A LONG setup accepted in BOTH mode after the short branch was rejected
C3_Witness ==
    /\ Returned
    /\ result.verdict = "VALID SETUP"
    /\ result.plan.direction = "LONG"
    /\ analyst.target_direction = "BOTH"
    /\ Entered("short")

(* C4 *)

\* The scenario: SHORT mode, past the news gate, close at position 0.70 (Premium),
\* no Bullish MSS, a high sweep on the final bar, bearish RSI divergence, R:R 2.0
\* meeting the minimum, probability at or above the minimum, spread within the limit
C4_Scenario ==
    /\ ReachedTrend
    /\ analyst.target_direction = "SHORT"
    /\ LET smc_data == analyze_all(df)
           position == smc_data.premium_discount.position
           c == CurrentCandle
           p == PrevCandle
           before == {df[i] : i \in (Max2(0, Len(df) - SweepLookback) + 1)..(Len(df) - 1)}
           rr == BuildSetup("SHORT", c).rr_ratio
           prob == predict_success_probability(
                      analyst.ml_classifier, prediction,
                      SetupData("SHORT", HtfTrend(df), "Local High Sweep",
                                ShortExhaustion(c), TRUE, c, smc_data),
                      smc_data)
       IN  /\ 10 * position.num = 7 * position.den
           /\ smc_data.premium_discount.zone = "Premium"
           /\ smc_data.market_structure_shift.type # "Bullish MSS"
           /\ \A b \in before : c.High > b.High
           /\ c.High > p.High /\ c.RSI.den > 0 /\ p.RSI.den > 0
           /\ c.RSI.num * p.RSI.den < p.RSI.num * c.RSI.den
           /\ rr = 2 * RRScale
           /\ rr >= config.min_risk_reward_ratio
           /\ prob >= config.min_probability_threshold
           /\ SpreadTenths <= config.max_spread_pips

C4_ValidShort ==
    /\ Returned
    /\ result.verdict = "VALID SETUP"
    /\ result.plan.direction = "SHORT"

\* C4 as stated: the scenario yields VALID SETUP with direction SHORT whatever else
\* holds of the bar series.
C4_ScenarioAlwaysValid == C4_Scenario => C4_ValidShort

\* C4 amended: the scenario yields VALID SETUP with direction SHORT provided the
\* trend is not Bullish (the close is not above the 50-bar SMA).
C4_ScenarioValidUnlessBullish ==
    (C4_Scenario /\ HtfTrend(df) # "Bullish") => C4_ValidShort

\* The scenario on a 50-bar series with a Bearish trend, accepted
C4_Witness ==
    C4_Scenario /\ HtfTrend(df) = "Bearish" /\ C4_ValidShort

(* C5 *)

C5_BothMode == ReachedTrend /\ analyst.target_direction = "BOTH"

\* C5 as stated: in BOTH mode the short branch is evaluated first, the long branch
\* whenever the short one is not VALID SETUP, and the result is that of the first
\* branch to succeed, NO TRADE only when neither succeeds, for every trend.
C5_BothFirstSuccessAnyTrend ==
    C5_BothMode
    => /\ Len(steps) >= 4 /\ steps[4] = "short"
       /\ ShortBranch.verdict # "VALID SETUP" => Entered("long")
       /\ IF ShortBranch.verdict = "VALID SETUP" THEN result = ShortBranch
          ELSE IF LongBranch.verdict = "VALID SETUP" THEN result = LongBranch
          ELSE result.verdict = "NO TRADE"

\* C5 amended: in BOTH mode the short branch is evaluated first unless the trend is
\* Bullish; the long branch is evaluated when the short one was skipped or is not
\* VALID SETUP, unless the trend is Bearish; the result is that of the first
\* evaluated branch to succeed, and NO TRADE when no evaluated branch succeeds.
C5_BothFirstSuccessByTrend ==
    C5_BothMode
    => LET trend == HtfTrend(df)
           short_run == trend # "Bullish"
           short_ok == short_run /\ ShortBranch.verdict = "VALID SETUP"
           long_run == ~short_ok /\ trend # "Bearish"
           long_ok == long_run /\ LongBranch.verdict = "VALID SETUP"
       IN  /\ steps = <<"smc", "news", "trend">>
                      \o (IF short_run THEN <<"short">> ELSE << >>)
                      \o (IF long_run THEN <<"long">> ELSE << >>)
           /\ IF short_ok THEN result = ShortBranch
              ELSE IF long_ok THEN result = LongBranch
              ELSE result.verdict = "NO TRADE"

\* BOTH mode, Ranging trend: the short branch rejected, then the long branch accepted
C5_Witness ==
    /\ C5_BothMode
    /\ steps = <<"smc", "news", "trend", "short", "long">>
    /\ ShortBranch.verdict = "NO TRADE"
    /\ result.verdict = "VALID SETUP"
    /\ result.plan.direction = "LONG"

(* C6 *)

\* Seconds to the nearest event of the calendar, past or future
C6_WithinWindow ==
    \E i \in 1..Len(analyst.news_df) :
        Abs(analyst.news_df[i].diff_seconds) <= NewsWindowMinutes * SecondsPerMinute

\* C6: on a non-empty bar series the news gate rejects exactly when an event is at
\* most 15 minutes away, past or future, with a High Impact News reason and no
\* branch evaluated; otherwise (16 minutes, or an empty calendar, which gives 9999)
\* the call goes on past the gate.
C6_NewsGate ==
    (Analyzed /\ Len(df) >= 1)
    => IF C6_WithinWindow
       THEN /\ Returned
            /\ result.verdict = "NO TRADE"
            /\ result.reason = "High Impact News: " \o NewsImpact.title \o " in "
                               \o ToString(RoundHalfEven(NewsImpact.mins60, SecondsPerMinute))
                               \o " min"
            /\ steps = <<"smc", "news">>
       ELSE /\ analyst.news_df = << >> =>
                  NewsImpact.mins60 = NoEventMinutes * SecondsPerMinute
            /\ IF Len(df) >= 2 THEN Returned /\ Entered("trend")
               ELSE result = Raise("IndexError")

\* An event exactly 15 minutes away rejected by the gate
C6_Witness ==
    /\ Returned
    /\ Len(df) >= 2
    /\ NewsImpact.mins60 = NewsWindowMinutes * SecondsPerMinute
    /\ result.verdict = "NO TRADE"
    /\ steps = <<"smc", "news">>

(* C7 *)

\* C7: analyze_market never raises, whatever the bar series (0, 1 or fewer than 50
\* bars, undefined RSI or SMA): every call ends in a verdict.
C7_NeverRaises ==
    Analyzed => (~Raised(result) /\ result.verdict \in {"NO TRADE", "VALID SETUP"})

----------------------------------------------------------------------------
(* C8 *)

\* C8: can_trade rejects when daily trades >= max, else when consecutive losses >=
\* stop count, else when drawdown >= max, and accepts otherwise; with several limits
\* breached the reason is that of the first check in this order.
C8_CanTradeOrder ==
    last_call.op = "can_trade"
    => last_call.ret =
          (IF daily_trades >= config.max_trades_per_day
           THEN <<FALSE, "Max daily trades reached">>
           ELSE IF consecutive_losses >= config.consecutive_loss_stop_count
           THEN <<FALSE, "Stopped due to consecutive losses">>
           ELSE IF current_daily_drawdown >= config.max_daily_drawdown_percent
           THEN <<FALSE, "Max daily drawdown reached">>
           ELSE <<TRUE, "OK">>)

\* All three limits breached at once: the daily-trades reason is returned
C8_Witness ==
    /\ last_call.op = "can_trade"
    /\ daily_trades >= config.max_trades_per_day
    /\ consecutive_losses >= config.consecutive_loss_stop_count
    /\ current_daily_drawdown >= config.max_daily_drawdown_percent
    /\ last_call.ret = <<FALSE, "Max daily trades reached">>

(* C9 *)

\* C9 as stated: can_trade and validate_setup, with any arguments, leave the three
\* counters unchanged.
C9_ChecksArePure ==
    last_call.op \in {"can_trade", "validate_setup"} => last_call.before = Counters

\* C9 amended: validate_setup with any arguments and can_trade(False) leave the
\* three counters unchanged (so repeating them returns the same answer);
\* can_trade(True) adds one to consecutive_losses and leaves the other two unchanged.
C9_ChecksPureExceptLossFlag ==
    /\ last_call.op = "validate_setup" => last_call.before = Counters
    /\ last_call.op = "can_trade" =>
          IF last_call.args[1]
          THEN Counters = <<last_call.before[1], last_call.before[2] + 1,
                            last_call.before[3]>>
          ELSE /\ last_call.before = Counters
               /\ last_call.ret = can_trade_checks(config, last_call.before[1],
                                                   last_call.before[2],
                                                   last_call.before[3])

\* can_trade(False) called on counters that earlier calls had moved
C9_Witness ==
    /\ last_call.op = "can_trade"
    /\ ~last_call.args[1]
    /\ consecutive_losses > 0
    /\ daily_trades > 0
    /\ last_call.before = Counters

(* C10 *)

\* C10: validate_setup rejects when rr_ratio < minimum, else when spread > maximum,
\* else when probability < minimum, and accepts otherwise; values exactly at a
\* threshold are accepted; with several violations the reason is the first check's.
C10_ValidateSetupOrder ==
    last_call.op = "validate_setup"
    => LET rr == last_call.args[1]
           spread == last_call.args[2]
           prob == last_call.args[3]
           allowed == last_call.ret[1]
           reason == last_call.ret[2]
       IN  /\ allowed <=> (/\ rr >= config.min_risk_reward_ratio
                           /\ spread <= config.max_spread_pips
                           /\ prob >= config.min_probability_threshold)
           /\ allowed => reason = "Valid"
           /\ rr < config.min_risk_reward_ratio =>
                 reason = "R:R " \o FmtRR(rr) \o " < "
                          \o FmtRR(config.min_risk_reward_ratio)
           /\ (rr >= config.min_risk_reward_ratio /\ spread > config.max_spread_pips) =>
                 reason = "Spread " \o Tenths(spread) \o " > "
                          \o Tenths(config.max_spread_pips)
           /\ (rr >= config.min_risk_reward_ratio /\ spread <= config.max_spread_pips
               /\ prob < config.min_probability_threshold) =>
                 reason = "Probability " \o ToString(prob) \o "% < "
                          \o ToString(config.min_probability_threshold) \o "%"

\* All three thresholds violated at once: the R:R reason is returned
C10_Witness ==
    /\ last_call.op = "validate_setup"
    /\ last_call.args[1] < config.min_risk_reward_ratio
    /\ last_call.args[2] > config.max_spread_pips
    /\ last_call.args[3] < config.min_probability_threshold
    /\ ~last_call.ret[1]
    /\ last_call.ret[2] = "R:R " \o FmtRR(last_call.args[1]) \o " < "
                          \o FmtRR(config.min_risk_reward_ratio)

----------------------------------------------------------------------------
(* C11 *)

\* The branch of a direction was evaluated and got as far as building its setup:
\* the results of the four gates before it carry empty data
SetupBuilt(direction) ==
    /\ ReachedTrend
    /\ IF direction = "SHORT"
       THEN Entered("short") /\ DOMAIN ShortBranch.data # {}
       ELSE Entered("long") /\ DOMAIN LongBranch.data # {}

\* C11: in both branches, whenever the risk of the setup built from the current
\* candle is > 0 the target is entry -/+ 2 * risk and the estimated R:R is exactly 2;
\* when the risk is 0 the estimated R:R is 0 and the setup is rejected by a positive
\* minimum R:R.
C11_RRExactlyTwo ==
    \A direction \in {"SHORT", "LONG"} :
        SetupBuilt(direction)
        => LET setup == BuildSetup(direction, CurrentCandle)
               branch == IF direction = "SHORT" THEN ShortBranch ELSE LongBranch
           IN  /\ setup.risk > 0 =>
                     /\ setup.tp1 = (IF direction = "SHORT"
                                     THEN setup.entry_price - 2 * setup.risk
                                     ELSE setup.entry_price + 2 * setup.risk)
                     /\ setup.rr_ratio = 2 * RRScale
               /\ setup.risk = 0 =>
                     /\ setup.rr_ratio = 0
                     /\ branch.verdict = "NO TRADE"

----------------------------------------------------------------------------
(* C12 *)

\* The point scale as the claim states it, relative to the trade direction
C12_DirectionalScore(direction, market_data, smc_data) ==
    LET position == smc_data.premium_discount.position
        mss == smc_data.market_structure_shift
        short == direction = "SHORT"
        total == (IF market_data.htf_trend = (IF short THEN "Bearish" ELSE "Bullish")
                  THEN 30 ELSE 0)
               + (IF market_data.liquidity_event_type # "None" THEN 25 ELSE 0)
               + (IF market_data.rsi_divergence THEN 10 ELSE 0)
               + (IF market_data.has_large_wick THEN 10 ELSE 0)
               + (IF (IF short THEN 1000 * position.num > 700 * position.den
                               ELSE 1000 * position.num < 300 * position.den)
                  THEN 15 ELSE 0)
               + (IF (IF short THEN Len(smc_data.order_blocks.bearish)
                               ELSE Len(smc_data.order_blocks.bullish)) > 0
                  THEN 10 ELSE 0)
               + (IF mss.type = (IF short THEN "Bearish MSS" ELSE "Bullish MSS")
                  THEN 10 ELSE 0)
    IN  Min2(total, 100)

\* The rule-based scorer gave the probability of the call's setup
FallbackUsed == analyst.ml_classifier # "fitted" \/ prediction = PredRaises

\* C12: the rule-based score of a setup is the capped sum of the seven terms, the
\* direction-relative ones (trend alignment, zone position beyond 0.7, order block
\* polarity, MSS) awarded symmetrically for SHORT and LONG setups.
C12_ScoreSymmetric ==
    \A direction \in {"SHORT", "LONG"} :
        (SetupBuilt(direction) /\ FallbackUsed)
        => LET branch == IF direction = "SHORT" THEN ShortBranch ELSE LongBranch
               score == _fallback_probability(branch.data, analyze_all(df))
           IN  /\ score = C12_DirectionalScore(direction, branch.data, analyze_all(df))
               /\ score >= 0 /\ score <= 100
               /\ branch.verdict = "VALID SETUP" => branch.plan.probability_score = score

----------------------------------------------------------------------------
(* C13 *)

\* C13: predict_success_probability never surfaces an error: with the model
\* absent, unfitted, or its prediction raising, it returns the rule-based fallback
\* score of the same inputs, and in every case the value lies in [0, 100].
C13_PredictFallsBack ==
    last_call.op = "predict_success_probability"
    => LET model == last_call.args[1]
           pred == last_call.args[2]
           score == _fallback_probability(last_call.args[3], last_call.args[4])
       IN  /\ last_call.ret \in 0..100
           /\ (model \in {"none", "unfitted"} \/ pred = PredRaises)
                 => last_call.ret = score
           /\ (model = "fitted" /\ pred # PredRaises) => last_call.ret = pred.value

\* A fitted model whose prediction raises, on inputs whose fallback sum exceeds the cap
C13_Witness ==
    /\ last_call.op = "predict_success_probability"
    /\ last_call.args[1] = "fitted"
    /\ last_call.args[2] = PredRaises
    /\ last_call.args[3].htf_trend = "Bearish"
    /\ last_call.args[4].market_structure_shift.type = "Bearish MSS"
    /\ last_call.ret = 100

----------------------------------------------------------------------------
(* C14 *)

\* "HH:MM" read back as minutes since 00:00
MinutesOf(hm) == 60 * (10 * hm[1] + hm[2]) + 10 * hm[4] + hm[5]

\* C14: check_session returns LONDON iff the time of day lies in the London window,
\* bounds included; otherwise NEW_YORK iff it lies in the New York window, bounds
\* included; otherwise none.  A time inside both windows yields LONDON.
C14_CheckSession ==
    (last_call.op = "check_session" /\ ~Raised(last_call))
    => LET t == last_call.args[1]
           in_london == MinutesOf(config.london_start_utc) <= t
                        /\ t <= MinutesOf(config.london_end_utc)
           in_new_york == MinutesOf(config.new_york_start_utc) <= t
                          /\ t <= MinutesOf(config.new_york_end_utc)
       IN  /\ last_call.ret = "LONDON" <=> in_london
           /\ last_call.ret = "NEW_YORK" <=> (~in_london /\ in_new_york)
           /\ last_call.ret = "None" <=> (~in_london /\ ~in_new_york)
           /\ (t = 8 * 60 + 30 /\ config.london_start_utc = HM(7, 0)
               /\ config.london_end_utc = HM(16, 0)) => last_call.ret = "LONDON"
           /\ (t = 17 * 60 + 30 /\ ~in_london /\ ~in_new_york) => last_call.ret = "None"

\* 16:00, the inclusive end of the London window, inside the New York window too
C14_Witness ==
    /\ last_call.op = "check_session"
    /\ ~Raised(last_call)
    /\ last_call.args[1] = 16 * 60
    /\ config.london_end_utc = HM(16, 0)
    /\ StrLe(config.new_york_start_utc, HM(16, 0))
    /\ StrLe(HM(16, 0), config.new_york_end_utc)
    /\ last_call.ret = "LONDON"

----------------------------------------------------------------------------
(* C19 *)

\* C19: every threshold the methods read (the six risk thresholds and the four
\* session bounds) is checked for presence when RiskManager is constructed: a
\* configuration lacking one fails at startup, and no can_trade, validate_setup or
\* check_session call made after a successful construction fails for a missing one.
C19_ThresholdsCheckedAtStartup ==
    /\ Constructed => (RuleKeys \cup FilterKeys \cup TradingHoursKeys) \subseteq DOMAIN config
    /\ ~Raised(last_call)


----------------------------------------------------------------------------
\* C20: the record analyze_market returned is never mutated afterwards: after every
\* iteration of the live loop, saving included, the result's data and plan are
\* what the call on the same analyst and bars returns
C20_ResultNeverMutated ==
    (live # NoRun /\ Returned) => result = analyze_market(analyst, config, df, prediction)


----------------------------------------------------------------------------
\* The trailing window of calculate_premium_discount: the last min(50, N) bars,
\* their highest high and lowest low
C15_Window == {i \in 1..Len(df) : i > Len(df) - ZoneWindow}
C15_High == CHOOSE h \in {df[i].High : i \in C15_Window} : \A i \in C15_Window : df[i].High <= h
C15_Low == CHOOSE l \in {df[i].Low : i \in C15_Window} : \A i \in C15_Window : l <= df[i].Low

\* C15: calculate_premium_discount's position is within [0,1] when the range of the
\* trailing window is > 0 (it is (close - low) / range), and is exactly 0.5 with
\* zone Equilibrium when the range is 0: the division is never by zero
C15_PositionInUnitInterval ==
    (last_call.op = "calculate_premium_discount" /\ ~Raised(last_call)) =>
        LET position == last_call.ret.position
            range_size == C15_High - C15_Low
        IN  /\ position.den > 0
            /\ range_size > 0 =>
                  /\ position.den = range_size
                  /\ position.num = df[Len(df)].Close - C15_Low
                  /\ 0 <= position.num /\ position.num <= position.den
            /\ range_size = 0 =>
                  /\ 2 * position.num = position.den
                  /\ last_call.ret.zone = "Equilibrium"

\* A flat 50-bar window behind a wide older bar: the range of the window is 0
\* while the range of the whole series is not
C15_Witness ==
    /\ last_call.op = "calculate_premium_discount"
    /\ ~Raised(last_call)
    /\ Len(df) > ZoneWindow
    /\ C15_High = C15_Low
    /\ df[1].High > C15_High
    /\ last_call.ret.zone = "Equilibrium"

----------------------------------------------------------------------------
\* The indices detect_order_blocks scans that hold an order block of the polarity
C16_Detections(direction) ==
    {i \in swing_lookback..(Len(df) - 2) : OrderBlockAt(df, direction, i) # << >>}

C16_Strength(direction, i) == OrderBlockAt(df, direction, i)[1].strength

\* C16: detect_order_blocks returns min(3, detections) order blocks of the requested
\* polarity, each a detection at an index in [lookback, N-2], sorted by strength
\* descending with equal strengths in scan order, and no detection left out is
\* stronger than, or as strong as and earlier than, one returned; no detection
\* gives the empty list
C16_TopThreeOrderBlocks ==
    last_call.op = "detect_order_blocks" =>
        LET direction == last_call.args[1]
            ret == last_call.ret
            detections == C16_Detections(direction)
            kept == {ret[k].index : k \in 1..Len(ret)}
        IN  /\ Len(ret) = Min2(3, Cardinality(detections))
            /\ \A k \in 1..Len(ret) :
                  /\ ret[k].index \in detections
                  /\ ret[k] = OrderBlockAt(df, direction, ret[k].index)[1]
                  /\ ret[k].type = (IF direction = "bearish" THEN "Bearish OB"
                                    ELSE "Bullish OB")
            /\ \A k \in 1..(Len(ret) - 1) :
                  \/ ret[k].strength > ret[k + 1].strength
                  \/ /\ ret[k].strength = ret[k + 1].strength
                     /\ ret[k].index < ret[k + 1].index
            /\ \A i \in detections \ kept : \A k \in 1..Len(ret) :
                  \/ C16_Strength(direction, i) < ret[k].strength
                  \/ /\ C16_Strength(direction, i) = ret[k].strength
                     /\ i > ret[k].index

\* More than three detections, the strongest not the first, two returned blocks of
\* equal strength, and a block left out as strong as the last one returned
C16_Witness ==
    /\ last_call.op = "detect_order_blocks"
    /\ Cardinality(C16_Detections(last_call.args[1])) > 3
    /\ Len(last_call.ret) = 3
    /\ last_call.ret[1].index > last_call.ret[2].index
    /\ last_call.ret[2].strength = last_call.ret[3].strength
    /\ \E i \in C16_Detections(last_call.args[1]) :
          /\ i > last_call.ret[3].index
          /\ C16_Strength(last_call.args[1], i) = last_call.ret[3].strength


----------------------------------------------------------------------------
\* The gap conditions of detect_fvg at the 0-based index i, on the frame
C17_BearishGap(i) == df[i - 1].Low > df[i + 1].High
C17_BullishGap(i) == df[i - 1].High < df[i + 1].Low
C17_Gaps == {i \in 2..(Len(df) - 1) : C17_BearishGap(i) \/ C17_BullishGap(i)}

\* C17: detect_fvg returns min(5, gaps) gaps, in strictly ascending index order (so
\* one gap per index at most), the gaps left out all older than the ones returned;
\* a gap is bearish where the bearish condition holds and bullish otherwise, and
\* its size, the gap width, is > 0
C17_LastFiveGaps ==
    last_call.op = "detect_fvg" =>
        LET ret == last_call.ret
            kept == {ret[k].index : k \in 1..Len(ret)}
        IN  /\ Len(ret) = Min2(5, Cardinality(C17_Gaps))
            /\ kept \subseteq C17_Gaps
            /\ \A k \in 1..(Len(ret) - 1) : ret[k].index < ret[k + 1].index
            /\ \A i \in C17_Gaps \ kept : \A k \in 1..Len(ret) : i < ret[k].index
            /\ \A k \in 1..Len(ret) :
                  /\ ret[k].type = (IF C17_BearishGap(ret[k].index) THEN "Bearish FVG"
                                    ELSE "Bullish FVG")
                  /\ ret[k].size = ret[k].top - ret[k].bottom
                  /\ ret[k].size > 0

\* More than five gaps of both kinds: the oldest is left out
C17_Witness ==
    /\ last_call.op = "detect_fvg"
    /\ Cardinality(C17_Gaps) > 5
    /\ Len(last_call.ret) = 5
    /\ \E i \in C17_Gaps : i < last_call.ret[1].index
    /\ \E j, k \in 1..5 : /\ last_call.ret[j].type = "Bearish FVG"
                          /\ last_call.ret[k].type = "Bullish FVG"

----------------------------------------------------------------------------
\* The 0-based indices detect_market_structure_shift finds a swing low / high at
C18_SwingLows ==
    {i \in swing_lookback..(Len(df) - swing_lookback - 1) :
        \A j \in (i - swing_lookback)..(i + swing_lookback) : df[j + 1].Low >= df[i + 1].Low}
C18_SwingHighs ==
    {i \in swing_lookback..(Len(df) - swing_lookback - 1) :
        \A j \in (i - swing_lookback)..(i + swing_lookback) : df[j + 1].High <= df[i + 1].High}

C18_Last(idx) == CHOOSE i \in idx : \A j \in idx : j <= i

\* The last swing low is higher than the one before and the close is below it
C18_BearishCondition ==
    /\ Cardinality(C18_SwingLows) >= 2
    /\ LET last == C18_Last(C18_SwingLows)
           before == C18_Last(C18_SwingLows \ {last})
       IN  /\ df[last + 1].Low > df[before + 1].Low
           /\ df[Len(df)].Close < df[last + 1].Low

\* The last swing high is lower than the one before and the close is above it
C18_BullishCondition ==
    /\ Cardinality(C18_SwingHighs) >= 2
    /\ LET last == C18_Last(C18_SwingHighs)
           before == C18_Last(C18_SwingHighs \ {last})
       IN  /\ df[last + 1].High < df[before + 1].High
           /\ df[Len(df)].Close > df[last + 1].High

\* C18: detect_market_structure_shift reports one MSS or none: Bearish MSS whenever
\* the bearish and the bullish condition both hold on the frame, none when neither
\* holds
C18_BearishMssFirst ==
    (last_call.op = "detect_market_structure_shift" /\ ~Raised(last_call)) =>
        /\ last_call.ret.type \in {"Bearish MSS", "Bullish MSS", "None"}
        /\ (C18_BearishCondition /\ C18_BullishCondition)
              => last_call.ret.type = "Bearish MSS"
        /\ (~C18_BearishCondition /\ ~C18_BullishCondition) => last_call.ret = NoMss

\* Both conditions hold on the frame and the call has returned
C18_Witness ==
    /\ last_call.op = "detect_market_structure_shift"
    /\ ~Raised(last_call)
    /\ C18_BearishCondition
    /\ C18_BullishCondition
    /\ last_call.ret.type = "Bearish MSS"


----------------------------------------------------------------------------
\* The last call was a branch, and the branch got past its zone gate and its
\* opposing-MSS gate (the two rejections that carry the SMC data)
BranchCalled(op) == last_call.op = op
PastStructureGates ==
    ~(last_call.ret.verdict = "NO TRADE" /\ "smc" \in DOMAIN last_call.ret)

\* The 10 bars immediately preceding the current bar, or all of them when fewer
C21_PriorTen == {i \in 1..(Len(df) - 1) : i >= Len(df) - 10}

\* C21: the sweep of the short (long) branch holds iff the current high (low) is
\* strictly above (below) the highest high (lowest low) of the 10 bars before the
\* current bar; without a sweep the branch is rejected with the no-sweep reason
C21_SweepOverTenBars ==
    /\ (BranchCalled("_analyze_short_setup") /\ PastStructureGates) =>
          (last_call.ret.reason = "No Liquidity Sweep (Highs)"
             <=> ~(\A i \in C21_PriorTen : df[Len(df)].High > df[i].High))
    /\ (BranchCalled("_analyze_long_setup") /\ PastStructureGates) =>
          (last_call.ret.reason = "No Liquidity Sweep (Lows)"
             <=> ~(\A i \in C21_PriorTen : df[Len(df)].Low < df[i].Low))


----------------------------------------------------------------------------
\* The branch found its sweep: it got past the structure gates and the sweep gate
BranchSwept ==
    /\ PastStructureGates
    /\ last_call.ret.reason \notin {"No Liquidity Sweep (Highs)", "No Liquidity Sweep (Lows)"}

\* Body and wicks of the current bar, and the RSI comparison (false when either RSI
\* is undefined), on the frame
C22_Body == LET c == df[Len(df)] IN IF c.Close >= c.Open THEN c.Close - c.Open ELSE c.Open - c.Close
C22_UpperWick == LET c == df[Len(df)] IN c.High - (IF c.Close >= c.Open THEN c.Close ELSE c.Open)
C22_LowerWick == LET c == df[Len(df)] IN (IF c.Close <= c.Open THEN c.Close ELSE c.Open) - c.Low
C22_RsiFalls == df[Len(df)].RSI.den > 0 /\ df[Len(df) - 1].RSI.den > 0 /\ df[Len(df)].RSI.num * df[Len(df) - 1].RSI.den < df[Len(df) - 1].RSI.num * df[Len(df)].RSI.den
C22_RsiRises == df[Len(df)].RSI.den > 0 /\ df[Len(df) - 1].RSI.den > 0 /\ df[Len(df)].RSI.num * df[Len(df) - 1].RSI.den > df[Len(df) - 1].RSI.num * df[Len(df)].RSI.den

\* C22: a branch that has its sweep is rejected with the no-confirmation reason
\* iff neither divergence (short: higher high with lower RSI; long: lower low
\* with higher RSI) nor exhaustion (sweep-side wick >= body) holds
C22_ConfirmationGate ==
    /\ (BranchCalled("_analyze_short_setup") /\ BranchSwept) =>
          (last_call.ret.reason = "No Confirmation (RSI/Wick)"
             <=> ~(\/ df[Len(df)].High > df[Len(df) - 1].High /\ C22_RsiFalls
                   \/ C22_UpperWick >= C22_Body))
    /\ (BranchCalled("_analyze_long_setup") /\ BranchSwept) =>
          (last_call.ret.reason = "No Confirmation (RSI/Wick)"
             <=> ~(\/ df[Len(df)].Low < df[Len(df) - 1].Low /\ C22_RsiRises
                   \/ C22_LowerWick >= C22_Body))

\* A short branch with its sweep, no divergence and an upper wick exactly as long
\* as the body: confirmed by exhaustion alone
C22_Witness ==
    /\ BranchCalled("_analyze_short_setup")
    /\ BranchSwept
    /\ ~C22_RsiFalls
    /\ C22_Body > 0
    /\ C22_UpperWick = C22_Body
    /\ last_call.ret.reason # "No Confirmation (RSI/Wick)"
    /\ last_call.ret.data.has_large_wick
    /\ ~last_call.ret.data.rsi_divergence


----------------------------------------------------------------------------
\* The swing points of the claim, as lists in ascending index order: the interior
\* indices whose high (low) is the highest (lowest) of the window around them
RECURSIVE C23_Ascending(_, _)
C23_Ascending(idx, col) ==
    IF idx = {} THEN << >>
    ELSE LET first == CHOOSE i \in idx : \A j \in idx : i <= j
         IN  <<[index |-> first, price |-> df[first + 1][col]]>>
             \o C23_Ascending(idx \ {first}, col)

\* C23: the swing points the MSS detector uses are exactly the interior indices
\* whose high (low) equals the window's highest high (lowest low), ties included,
\* in ascending index order; on a series shorter than 2 * lookback + 1 both lists
\* are empty, no error is raised and the MSS result is none
C23_SwingPoints ==
    BranchCalled("detect_market_structure_shift") =>
        /\ swing_highs(df) = C23_Ascending(C18_SwingHighs, "High")
        /\ swing_lows(df) = C23_Ascending(C18_SwingLows, "Low")
        /\ Len(df) < 2 * swing_lookback + 1 =>
              /\ swing_highs(df) = << >>
              /\ swing_lows(df) = << >>
              /\ ~Raised(last_call)
              /\ last_call.ret = NoMss


----------------------------------------------------------------------------
\* C24: a Bearish MSS is reported iff there are two swing lows, the most recent
\* higher than the one before and the close below it; a Bullish MSS iff no
\* Bearish MSS fires and there are two swing highs, the most recent lower than
\* the one before and the close above it; broken_level is the price of that most
\* recent swing
C24_MssConditions ==
    (BranchCalled("detect_market_structure_shift") /\ ~Raised(last_call)) =>
        LET ret == last_call.ret
        IN  /\ ret.type = "Bearish MSS" <=> C18_BearishCondition
            /\ ret.type = "Bullish MSS" <=> (~C18_BearishCondition /\ C18_BullishCondition)
            /\ ret.type = "Bearish MSS" =>
                  ret.broken_level = df[C18_Last(C18_SwingLows) + 1].Low
            /\ ret.type = "Bullish MSS" =>
                  ret.broken_level = df[C18_Last(C18_SwingHighs) + 1].High

\* A Bullish MSS: the bearish condition fails, the last swing high is lower than
\* the one before and the level broken is that last swing high
C24_Witness ==
    /\ BranchCalled("detect_market_structure_shift")
    /\ ~Raised(last_call)
    /\ ~C18_BearishCondition
    /\ C18_BullishCondition
    /\ last_call.ret.type = "Bullish MSS"
    /\ last_call.ret.broken_level < df[Len(df)].Close


----------------------------------------------------------------------------
\* The close's place in the range of the last 50 bars, compared with a bound in
\* thousandths; one half when the range is empty
C25_Above(thousandths) ==
    IF C15_High - C15_Low > 0
    THEN 1000 * (df[Len(df)].Close - C15_Low) > thousandths * (C15_High - C15_Low)
    ELSE 500 > thousandths

C25_Label ==
    IF C25_Above(618) THEN "Premium"
    ELSE IF C25_Above(500) THEN "Premium (Weak)"
    ELSE IF C25_Above(382) THEN "Equilibrium"
    ELSE "Discount"

\* C25: the zone label has strict lower bounds at 0.618, 0.5 and 0.382 and is
\* never 'Discount (Weak)'; the short branch rejects on the zone exactly the
\* positions at or below 0.382 and the long branch exactly those above 0.5,
\* whatever the instrument
C25_ZoneGate ==
    /\ BranchCalled("_analyze_short_setup") =>
          /\ (last_call.ret.reason = "Not in Premium Zone (Current: " \o C25_Label \o ")")
                <=> ~C25_Above(382)
          /\ last_call.ret.reason # "Not in Premium Zone (Current: " \o C25_Label \o ")"
                => PastStructureGates \/ last_call.ret.reason = "Bullish Market Structure Shift detected"
    /\ BranchCalled("_analyze_long_setup") =>
          /\ (last_call.ret.reason = "Not in Discount Zone (Current: " \o C25_Label \o ")")
                <=> C25_Above(500)
          /\ last_call.ret.reason # "Not in Discount Zone (Current: " \o C25_Label \o ")"
                => PastStructureGates \/ last_call.ret.reason = "Bearish Market Structure Shift detected"
    /\ (last_call # NoCall /\ "smc" \in DOMAIN last_call.ret) =>
          /\ last_call.ret.smc.premium_discount.zone = C25_Label
          /\ last_call.ret.smc.premium_discount.zone # "Discount (Weak)"

\* The short branch rejects a close exactly 0.382 of the way up the range as
\* Discount
C25_Witness ==
    /\ BranchCalled("_analyze_short_setup")
    /\ C15_High - C15_Low > 0
    /\ 1000 * (df[Len(df)].Close - C15_Low) = 382 * (C15_High - C15_Low)
    /\ last_call.ret.reason = "Not in Premium Zone (Current: Discount)"


----------------------------------------------------------------------------
\* The closes of the bars from..Len(df), summed
RECURSIVE C26_CloseSum(_)
C26_CloseSum(from) == IF from > Len(df) THEN 0 ELSE df[from].Close + C26_CloseSum(from + 1)

\* The close against the mean of the last 50 closes; Ranging below 50 bars
C26_Trend ==
    IF Len(df) < 50 THEN "Ranging"
    ELSE LET total == C26_CloseSum(Len(df) - 49)
         IN  IF 50 * df[Len(df)].Close < total THEN "Bearish"
             ELSE IF 50 * df[Len(df)].Close > total THEN "Bullish"
             ELSE "Ranging"

\* C26: once the trend step is reached, SHORT mode with a Bullish trend and LONG
\* mode with a Bearish trend return NO TRADE with the momentum reason and no
\* branch evaluated; a VALID SHORT never has trend Bullish and a VALID LONG never
\* has trend Bearish, in any mode; the trend recorded is the close against the
\* 50-bar mean, Ranging when they are equal or fewer than 50 bars exist
C26_TrendGate ==
    ReachedTrend =>
        /\ (analyst.target_direction = "SHORT" /\ C26_Trend = "Bullish") =>
              /\ result.verdict = "NO TRADE"
              /\ result.reason = "Strong Bullish Momentum"
              /\ ~Entered("short") /\ ~Entered("long")
        /\ (analyst.target_direction = "LONG" /\ C26_Trend = "Bearish") =>
              /\ result.verdict = "NO TRADE"
              /\ result.reason = "Strong Bearish Momentum"
              /\ ~Entered("short") /\ ~Entered("long")
        /\ result.reason \in {"Strong Bullish Momentum", "Strong Bearish Momentum"} =>
              analyst.target_direction # "BOTH"
        /\ result.verdict = "VALID SETUP" =>
              /\ result.data.htf_trend = C26_Trend
              /\ result.plan.direction = "SHORT" => C26_Trend # "Bullish"
              /\ result.plan.direction = "LONG" => C26_Trend # "Bearish"

\* A VALID LONG returned in BOTH mode on a Bullish trend, the short branch skipped
C26_Witness ==
    /\ ReachedTrend
    /\ analyst.target_direction = "BOTH"
    /\ C26_Trend = "Bullish"
    /\ result.verdict = "VALID SETUP"
    /\ result.plan.direction = "LONG"
    /\ ~Entered("short")


----------------------------------------------------------------------------
\* C27: in a live run the three counters stay as the can_trade call before the
\* loop left them, whatever the instruments give, and can_trade is called once:
\* never again between instruments
C27_CountersFrozenInLoop ==
    live # NoRun =>
        /\ live.can_trade_calls <= 1
        /\ live.pc \in {"loop", "done", "risk stop", "symbol not found"}
              => live.can_trade_calls = 1
        /\ live.can_trade_calls = 1 => Counters = live.at_gate
        /\ Analyzed => live.can_trade_calls = 1

\* A finished run that saved the plans of two instruments
C27_Witness ==
    /\ live # NoRun
    /\ live.pc = "done"
    /\ Len(live.trade_plans) = 2
    /\ live.can_trade_calls = 1
    /\ Counters = live.at_gate

\* C30: every plan a live run saves, collects or e-mails has direction SHORT
C30_LivePlansShort ==
    (live # NoRun /\ live.pc \in {"loop", "done"}) =>
        /\ \A i \in 1..Len(live.trade_plans) : live.trade_plans[i].direction = "SHORT"
        /\ \A i \in 1..Len(live.valid_setups) : live.valid_setups[i].plan.direction = "SHORT"
        /\ \A i \in 1..Len(live.emails) : live.emails[i].plan.direction = "SHORT"
        /\ ~Entered("long")

\* A finished run that e-mailed a plan, after an iteration on bars the long branch
\* would accept
C30_Witness ==
    /\ live # NoRun
    /\ live.pc = "done"
    /\ Len(live.emails) >= 1
    /\ live.emails[1].plan.direction = "SHORT"
    /\ Returned
    /\ LongBranch.verdict = "VALID SETUP"


----------------------------------------------------------------------------
\* The plan of a VALID SETUP made with a positive minimum R:R on a current bar
\* with low <= close <= high
C28_ValidPlan ==
    /\ Returned
    /\ result.verdict = "VALID SETUP"
    /\ config.min_risk_reward_ratio > 0
    /\ CurrentCandle.Low <= CurrentCandle.Close
    /\ CurrentCandle.Close <= CurrentCandle.High

\* Target, entry and stop are in the order of the plan's direction and the entry
\* is the current close
C28_Ordered ==
    LET plan == result.plan
    IN  /\ plan.direction = "SHORT" =>
              plan.tp1 < plan.entry_zone_start /\ plan.entry_zone_start < plan.stop_loss
        /\ plan.direction = "LONG" =>
              plan.stop_loss < plan.entry_zone_start /\ plan.entry_zone_start < plan.tp1
        /\ plan.entry_zone_start = 10 * CurrentCandle.Close

\* C28: every such plan is ordered tp1 < entry < stop (SHORT) or stop < entry < tp1
\* (LONG), enters at the current close, and has |entry - tp1| = 2 * |stop - entry|.
\* The plan's estimated_rr is |entry - tp1| / |stop - entry| on the doubles the plan
\* holds, so the distances are in that proportion exactly when it is 2.
C28_PlanGeometry ==
    C28_ValidPlan => (C28_Ordered /\ result.plan.estimated_rr = 2 * RRScale)


----------------------------------------------------------------------------
\* The rule-based score of the setup the long (short) branch built
C29_LongScore == _fallback_probability(LongBranch.data, analyze_all(df))
C29_ShortScore == _fallback_probability(ShortBranch.data, analyze_all(df))

\* C29: with the rule-based scorer in use, a setup scored on the long branch gets
\* at most 55 and one scored on either branch at least 35; a minimum probability
\* above 55 leaves no VALID LONG
C29_FallbackScoreBounds ==
    (ReachedTrend /\ FallbackUsed) =>
        /\ SetupBuilt("LONG") => (C29_LongScore >= 35 /\ C29_LongScore <= 55)
        /\ SetupBuilt("SHORT") => C29_ShortScore >= 35
        /\ (Returned /\ result.verdict = "VALID SETUP" /\ result.plan.direction = "LONG") =>
              /\ result.plan.probability_score = C29_LongScore
              /\ result.plan.probability_score <= 55
              /\ config.min_probability_threshold <= 55

\* A long setup scored 55 by the rule-based scorer and rejected by a minimum
\* probability of 60
C29_Witness ==
    /\ SetupBuilt("LONG")
    /\ FallbackUsed
    /\ C29_LongScore = 55
    /\ config.min_probability_threshold = 60
    /\ result.verdict = "NO TRADE"
    /\ result.reason = "No valid setup found in requested direction"

====
